---- MODULE Spec2Model ----
(***************************************************************************)
(* Model of the resilience and caching snippets of the interview-prep      *)
(* notes: withRetry and CircuitBreaker (src/backend-examples.js 181-223,   *)
(* repeated in src/unnamed/part_000 537-583), the cache-aside reads        *)
(* getUser (src/backend-examples.js 340-352) and cacheAsideExample         *)
(* (src/postgres.js 673-690), and redisOperations (src/postgres.js         *)
(* 512-601), which writes keys of the same Redis.                          *)
(*                                                                         *)
(* JavaScript runs each async function atomically between two awaits, so   *)
(* every action below is one such run-to-completion segment: the code from *)
(* the event that resumes it (a call, a settled promise, a fired timer) to *)
(* the next await, return or throw.                                        *)
(***************************************************************************)
EXTENDS Integers, Sequences, FiniteSets, TLC

\* ------------------------------------------------------------------ bounds
NCallers == 2          \* concurrent callers of the breaker
NRetryCallers == 1     \* concurrent callers of withRetry, at most NCallers
MaxCalls == 4          \* calls made through the breaker when callers call repeatedly
MaxRetries == 3        \* largest `retries` argument tried
MaxThreshold == 2      \* largest `threshold` constructor argument tried
MaxTimeout == 2        \* largest breaker `timeout` tried, in clock units
MaxTime == 3           \* the clock stops advancing here
NGetCallers == 2       \* callers of getUser and cacheAsideExample, one call each
NKeys == 3             \* user ids tried, the first NKeys of UserIds
MaxCacheTicks == 3     \* steps the cache clock may advance
MaxLoopTime == 1       \* the event loop's clock advances freely up to here, in ms
MaxUnits == 1          \* largest initial balance and largest amount, in units of Amount
MaxTxCalls == 2        \* database functions called in one run
MaxOut == 1            \* clients other users of the pool hold at the start
MaxCPUs == 3           \* largest os.cpus().length tried
MaxLoopCalls == 2      \* calls of eventLoopExample in one process
MaxDeaths == 3         \* worker deaths in one run
NUsers == 1            \* users tokens are issued to
MaxRequests == 2       \* requests authMiddleware handles in one run

Callers == 1..NCallers
RetryCallers == {c \in Callers : c <= NRetryCallers}
GetCallers == 1..NGetCallers
\* The ids the callers ask for.  The key `user:${id}` of id '100' is the key
\* redisOperations keeps a hash under and that of id '1:name' is the key it
\* sets to 'John Doe'; the keys of the other ids only the cache-aside
\* functions use.
UserIds == <<"1", "100", "1:name", "2", "3">>
Keys == {UserIds[j] : j \in 1..NKeys}
\* redis.hset('user:100', ...): the id whose key holds the hash
HashUser == "100"
\* redis.set('user:1:name', 'John Doe'): the id whose key holds the name
NameUser == "1:name"

\* redis.set(..., 'EX', 3600): the entry's time to live in seconds
Ttl == 3600
\* cacheAsideExample's redis.set(..., 'EX', 600): its entries' time to live
CacheAsideTtl == 600
\* withRetry(fn, retries = 3, ...): the default number of attempts
DefaultRetries == 3
\* UPDATE accounts SET balance = balance - 100: the amount of the SQL transfer
Amount == 100
\* the cache clock advances in steps of half a time to live
ClockStep == Ttl \div 2
MaxCacheTime == MaxCacheTicks * ClockStep

\* `delay` argument of withRetry: one clock unit of Spec and SpecRetry is the
\* default delay of 1000 ms
Delay == 1

\* ------------------------------------------------------------------ state
VARIABLES
    now,        \* the clock that setTimeout measures against
    failures,   \* CircuitBreaker.failures
    threshold,  \* CircuitBreaker.threshold
    timeout,    \* CircuitBreaker.timeout
    state,      \* CircuitBreaker.state
    hoTimers,   \* pending setTimeout(() => state = 'HALF-OPEN') deadlines, oldest first
    rpc,        \* per caller: where its withRetry call stands
    rretries,   \* per caller: the `retries` argument
    ri,         \* per caller: the loop variable i
    rwake,      \* per caller: deadline of the backoff timer it sleeps on
    rerr,       \* per caller: the last error thrown to it or caught by withRetry
    rres,       \* per caller: how the promise the caller holds settled
    rdirect,    \* per caller: it called breaker.call itself, not through withRetry
    rcall,      \* per caller: how breaker.call settled, until withRetry resumes on it
    rentry,     \* per caller: this.state as read by the guard of its last fn() (observation)
    started,    \* number of withRetry / breaker calls made so far (observation)
    attempts,   \* per caller: number of times fn() was invoked (observation)
    slept,      \* per caller: sequence of backoff delays waited (observation)
    originCalls,\* number of times the breaker invoked the wrapped origin (observation)
    openedAt,   \* clock value of the last CLOSED/HALF-OPEN -> OPEN change (observation)
    recent,     \* outcomes of the last origin calls the breaker recorded (observation)
    cache,      \* the Redis store: per id, the entry under `user:${id}` or NoEntry
    gpc,        \* per getUser caller: the await it is suspended on
    gid,        \* per getUser caller: the argument id
    greply,     \* per getUser caller: the reply Redis has in flight to it
    guser,      \* per getUser caller: the local `user`
    gres,       \* per getUser caller: how the getUser promise settled
    gstarted,   \* number of cache-aside calls made so far (observation)
    gdriver,    \* per getUser caller: a caller whose fetch of the same id was running
                \* when this call missed, 0 if there was none (observation)
    dbCalls,    \* per id: number of times the database was asked for it (observation)
    loaded,     \* per id: the values the database has yielded for it (observation)
    gfn,        \* per caller: the function it called, getUser or cacheAsideExample
    pipe,       \* the callers whose command the shared `redis` client of getUser has
                \* sent and Redis has not executed yet, oldest first
    opc,        \* the command redisOperations is suspended on
    oreply,     \* the reply Redis has sent to that command, None before it executes it
    ores,       \* how the redisOperations promise settled
    eprog,      \* the script the Node process runs, "none" before it is loaded
    ecalls,     \* where the main module has called the script from, call by call (observation)
    out,        \* the lines console.log has printed, in order
    tickQ,      \* the process.nextTick queue
    microQ,     \* the promise job queue
    draining,   \* whether promise jobs are being run and more are queued
    timerQ,     \* pending setTimeout timers [cb, start], in the order they were set
    hdue,       \* when the loop is due to run the timers, NoTimer with none pending
    tnow,       \* the time the timers that are being run are measured against
    immQ,       \* the setImmediate queue
    immRun,     \* immediates the current check phase has still to run
    io,         \* pending fs operations [cb, left, ready]
    phase,      \* where the event loop stands
    ltime,      \* the loop's cached clock (libuv's loop time)
    tfn,        \* the database function that is running, "none" if none is
    tpc,        \* the await the running function is suspended on
    tqn,        \* crudOperations: the number of queries that have returned
    tsender,    \* the account debited (senderId, or id 1 of the withdraw statement)
    treceiver,  \* the account credited (receiverId, or id 2 of the deposit statement)
    tamount,    \* the amount transferred
    bal,        \* the committed accounts: per id whether it exists and its balance
    work,       \* the open transaction's view of the accounts, NoTx if none is open
    bal0,       \* the committed accounts when the function was called (observation)
    terr,       \* the error the function's catch block has caught, "" if none
    tres,       \* how the function's promise stands
    pout,       \* number of pool clients checked out
    pbefore,    \* pout when the function was called (observation)
    prel,       \* number of client.release() calls the function has made (observation)
    pgot,       \* whether pool.connect() gave the function a client (observation)
    sess,       \* number of mongoose sessions started and not ended
    tcalls,     \* number of database functions called so far (observation)
    numCPUs,    \* os.cpus().length
    kpc,        \* where the cluster master's script stands
    ki,         \* the loop variable i of the master's fork loop
    live,       \* the worker processes that are alive, by worker id
    nextId,     \* the id the next forked worker gets
    exited,     \* dead workers whose exit the master has not noticed yet
    exits,      \* 'exit' events the master has noticed and not handled yet, in delivery order
    deaths,     \* number of workers that have died (observation)
    reqs        \* the requests authMiddleware has handled, with what it did to each

bvars == <<failures, threshold, timeout, state, hoTimers>>
rvars == <<rpc, rretries, ri, rwake, rerr, rres, rdirect, rcall>>
ovars == <<rentry, started, attempts, slept, originCalls, openedAt, recent>>
cvars == <<cache, pipe, opc, oreply, ores, gpc, gid, greply, guser, gres, gstarted, gdriver, dbCalls, loaded,
          gfn>>
evars == <<eprog, ecalls, out, tickQ, microQ, draining, timerQ, hdue, tnow, immQ, immRun, io, phase,
          ltime>>
tvars == <<tfn, tpc, tqn, tsender, treceiver, tamount, bal, work, bal0, terr, tres,
           pout, pbefore, prel, pgot, sess, tcalls>>
kvars == <<numCPUs, kpc, ki, live, nextId, exited, exits, deaths>>
avars == <<reqs>>
xvars == <<evars, tvars, kvars, avars>>
restE == <<tvars, kvars, avars>>
restT == <<evars, kvars, avars>>
restK == <<evars, tvars, avars>>
restA == <<evars, tvars, kvars>>
basevars == <<bvars, rvars, ovars, cvars>>
vars == <<now, bvars, rvars, ovars, cvars, xvars>>

\* ------------------------------------------------------------------ values
None == [kind |-> "none"]
Undefined == [kind |-> "undefined"]
\* what the origin resolves to for caller c on attempt i
Value(c, i) == [kind |-> "value", from |-> c, attempt |-> i]
\* new Error('Circuit is OPEN'), thrown on attempt i
OpenError(i) == [kind |-> "error", msg |-> "Circuit is OPEN", attempt |-> i]
\* the rejection of the origin function on attempt i
OriginError(i) == [kind |-> "error", msg |-> "origin failed", attempt |-> i]

\* the database row of user id
Row(id) == [kind |-> "row", id |-> id]
\* the user cacheAsideExample builds where it would access the database
FromDb(id) == [kind |-> "row", id |-> id, name |-> "From DB"]
\* findById found nothing
Null == [kind |-> "null"]
\* what db.users.findById(id) may resolve to: the row, or null when there is none
OriginValues(id) == {Row(id), Null}
\* the Redis nil reply of a GET on an absent or expired key
Nil == [kind |-> "nil"]
\* the reply 'OK' of a SET
Ok == [kind |-> "OK"]
\* a rejected Redis command
RedisError == [kind |-> "error", msg |-> "redis"]
\* the error reply of Redis to a command on a key that holds another type
WrongType == [kind |-> "error", msg |-> "WRONGTYPE"]
\* what JSON.parse throws for a text that is not JSON
SyntaxError == [kind |-> "error", msg |-> "SyntaxError"]
\* the expiry of an entry written without a time to live
NoExpiry == -1
\* no timer is pending: the event loop's timer handle is stopped
NoTimer == -1
\* the fields redisOperations gives the hash of user 100
JaneProfile == [name |-> "Jane", email |-> "jane@example.com", age |-> 25]
DbError == [kind |-> "error", msg |-> "db"]
NoEntry == [kind |-> "absent"]

IsString(x) == x.kind = "string"
IsValue(x) == x.kind = "value"
IsError(x) == x.kind = "error"
IsOpenError(x) == IsError(x) /\ x.msg = "Circuit is OPEN"
IsOriginError(x) == IsError(x) /\ x.msg = "origin failed"

\* ------------------------------------------------------------------ helpers
\* JSON.stringify(user): a string holding the JSON text of the value
Stringify(v) == [kind |-> "string", json |-> v]

\* a string that is not JSON text, such as 'John Doe': it denotes no value
Text(t) == [kind |-> "string", json |-> [kind |-> "invalid", text |-> t]]

\* JSON.parse(cached): the value the JSON text denotes; a SyntaxError is thrown
\* for any other text
Parse(str) == IF str.json.kind = "invalid" THEN SyntaxError ELSE str.json

\* `if (cached)`: the nil reply is falsy, a non-empty string is truthy
Truthy(reply) == reply # Nil

\* the entry SET key value EX ttl creates at time t
Entry(str, t, ttl) == [kind |-> "entry", val |-> str, exp |-> t + ttl]

\* the entry SET key value creates: a string that never expires
Persistent(str) == [kind |-> "entry", val |-> str, exp |-> NoExpiry]

\* the entry HSET and HINCRBY leave: a hash with fields f, which never expires
Hash(f) == [kind |-> "hash", val |-> f, exp |-> NoExpiry]

\* what Redis holds under `user:${id}` at time t: an entry written with EX
\* is gone once the time is past its expiry; at the time of the expiry itself
\* Redis still serves it
Holds(store, id, t) ==
    IF store[id] # NoEntry /\ (store[id].exp = NoExpiry \/ t <= store[id].exp)
    THEN store[id] ELSE NoEntry

\* Redis GET at time t: nil for an absent or expired key, the string the key
\* holds, WRONGTYPE for a key that holds a hash
CacheGet(store, id, t) ==
    IF Holds(store, id, t) = NoEntry THEN Nil
    ELSE IF Holds(store, id, t).kind = "hash" THEN WrongType
    ELSE Holds(store, id, t).val

\* Redis HSET key f at time t: the hash is created or its fields are set, and
\* a key that holds a string is left alone (the reply is WRONGTYPE)
Hset(store, id, t, f) ==
    IF Holds(store, id, t) # NoEntry /\ Holds(store, id, t).kind # "hash"
    THEN store
    ELSE [store EXCEPT ![id] = Hash(f)]

\* Redis HINCRBY key age 1 at time t: the field is incremented, starting from
\* 0 in a hash that is not there yet
Hincrby(store, id, t) ==
    IF Holds(store, id, t) = NoEntry THEN [store EXCEPT ![id] = Hash([age |-> 1])]
    ELSE IF Holds(store, id, t).kind # "hash" THEN store
    ELSE [store EXCEPT ![id] = Hash([Holds(store, id, t).val EXCEPT !.age = @ + 1])]

\* whether Redis answers a hash command on the key with WRONGTYPE at time t
NotAHash(store, id, t) ==
    Holds(store, id, t) # NoEntry /\ Holds(store, id, t).kind # "hash"

\* CircuitBreaker.call: the guard that rejects a call
Rejects(st) == st = "OPEN"

\* a success path that leaves the failure counter as it is
AfterSuccessKeep(f) == f

\* CircuitBreaker.call: `this.failures = 0` after the awaited call resolved
AfterSuccess(f) == 0

\* a breaker that trips one failure late
TrippedLate(f, th) == f > th

\* CircuitBreaker.call: the trip condition after this.failures++
Tripped(f, th) == f >= th

\* a catch block that looks for the last attempt one iteration late
LastAttemptOffByOne(i, r) == i = r

\* withRetry: the catch block's test for the last attempt
LastAttempt(i, r) == i = r - 1

\* a backoff that multiplies the delay by the loop index itself
BackoffFromZero(i) == Delay * i

\* withRetry: the backoff delay after failed attempt i
Backoff(i) == Delay * (i + 1)

\* keep only the last n entries of a sequence
LastN(s, n) == IF Len(s) <= n THEN s ELSE SubSeq(s, Len(s) - n + 1, Len(s))

\* ------------------------------------------------------------------ Init
\* new CircuitBreaker(th, to), no call made yet
InitBreaker(th, to) ==
    /\ failures = 0
    /\ threshold = th
    /\ timeout = to
    /\ state = "CLOSED"
    /\ hoTimers = <<>>
    /\ rpc = [c \in Callers |-> "idle"]
    /\ rretries = [c \in Callers |-> 0]
    /\ ri = [c \in Callers |-> 0]
    /\ rwake = [c \in Callers |-> 0]
    /\ rerr = [c \in Callers |-> None]
    /\ rres = [c \in Callers |-> None]
    /\ rdirect = [c \in Callers |-> FALSE]
    /\ rcall = [c \in Callers |-> None]
    /\ rentry = [c \in Callers |-> "none"]
    /\ started = 0
    /\ attempts = [c \in Callers |-> 0]
    /\ slept = [c \in Callers |-> <<>>]
    /\ originCalls = 0
    /\ openedAt = -1
    /\ recent = <<>>

\* an empty Redis, no call made yet
InitCacheStore ==
    /\ cache = [k \in Keys |-> NoEntry]
    /\ gpc = [c \in GetCallers |-> "idle"]
    /\ gid = [c \in GetCallers |-> "none"]
    /\ greply = [c \in GetCallers |-> None]
    /\ guser = [c \in GetCallers |-> None]
    /\ gres = [c \in GetCallers |-> None]
    /\ gstarted = 0
    /\ gdriver = [c \in GetCallers |-> 0]
    /\ dbCalls = [k \in Keys |-> 0]
    /\ loaded = [k \in Keys |-> {}]
    /\ gfn = [c \in GetCallers |-> "none"]
    /\ pipe = <<>>
    /\ opc = "idle"
    /\ oreply = None
    /\ ores = None

\* a Node process that has not loaded its script yet
InitEventLoop ==
    /\ eprog = "none"
    /\ ecalls = <<>>
    /\ out = <<>>
    /\ tickQ = <<>>
    /\ microQ = <<>>
    /\ draining = FALSE
    /\ timerQ = <<>>
    /\ hdue = NoTimer
    /\ tnow = 0
    /\ immQ = <<>>
    /\ immRun = 0
    /\ io = <<>>
    /\ phase = "load"
    /\ ltime = 0

\* an account that does not exist
Absent == [exists |-> FALSE, balance |-> 0]
\* an account with balance b
Account(b) == [exists |-> TRUE, balance |-> b]
\* how the promise of a database function stands
Pending == [settled |-> "no"]
Fulfilled == [settled |-> "fulfilled"]
RejectedWith(e) == [settled |-> "rejected", error |-> e]

\* no transaction is open
NoTx == [active |-> FALSE]
\* an open transaction that sees the accounts as `view`
Tx(view) == [active |-> TRUE, view |-> view]

\* the two accounts of the transfer snippets
Accounts == {1, 2}
InitBalances == {Absent} \cup {Account(k * Amount) : k \in 0..MaxUnits}

\* no database function called yet; the accounts hold `b`, other users of the
\* pool hold `o` clients
InitDb(b, o) ==
    /\ tfn = "none"
    /\ tpc = "idle"
    /\ tqn = 0
    /\ tsender = 0
    /\ treceiver = 0
    /\ tamount = 0
    /\ bal = b
    /\ work = NoTx
    /\ bal0 = b
    /\ terr = ""
    /\ tres = Pending
    /\ pout = o
    /\ pbefore = o
    /\ prel = 0
    /\ pgot = FALSE
    /\ sess = 0
    /\ tcalls = 0

\* a master process on a machine with n CPUs, about to run its script
InitCluster(n) ==
    /\ numCPUs = n
    /\ kpc = "forking"
    /\ ki = 0
    /\ live = {}
    /\ nextId = 1
    /\ exited = {}
    /\ exits = <<>>
    /\ deaths = 0

\* no request has reached authMiddleware yet
InitAuth ==
    /\ reqs = <<>>

\* the parts of the state a specification of another snippet leaves alone
InitRestE ==
    /\ InitDb([a \in Accounts |-> Absent], 0)
    /\ InitCluster(1)
    /\ InitAuth

InitRestT ==
    /\ InitEventLoop
    /\ InitCluster(1)
    /\ InitAuth

InitRestK ==
    /\ InitEventLoop
    /\ InitDb([a \in Accounts |-> Absent], 0)
    /\ InitAuth

InitRestA ==
    /\ InitEventLoop
    /\ InitDb([a \in Accounts |-> Absent], 0)
    /\ InitCluster(1)

InitRest ==
    /\ InitEventLoop
    /\ InitRestE

\* Spec and SpecRetry: a breaker with any threshold and timeout within the bounds
Init ==
    /\ now = 0
    /\ \E th \in 1..MaxThreshold, to \in 1..MaxTimeout : InitBreaker(th, to)
    /\ InitCacheStore
    /\ InitRest

\* SpecCache: getUser uses no breaker, so one breaker that is never called
InitCache ==
    /\ now = 0
    /\ InitBreaker(1, 1)
    /\ InitCacheStore
    /\ InitRest

\* SpecRetryFair: a breaker that opens at the first failure and stays open
\* beyond the first backoff, or one that opens at the second consecutive
\* failure and is half-open again by the next attempt
InitRetryFair ==
    /\ now = 0
    /\ \E p \in {<<1, 2>>, <<2, 1>>} : InitBreaker(p[1], p[2])
    /\ InitCacheStore
    /\ InitRest

\* ------------------------------------------------------------------ withRetry
\* a catch block whose backoff promise is never resolved by its timer
CatchNeverResolves(c, i, r, err) ==
    /\ rerr' = [rerr EXCEPT ![c] = err]
    /\ ri' = [ri EXCEPT ![c] = i]
    /\ IF LastAttempt(i, r)
       THEN /\ rpc' = [rpc EXCEPT ![c] = "done"]
            /\ rres' = [rres EXCEPT ![c] = err]
            /\ UNCHANGED <<rwake, slept>>
       ELSE /\ rpc' = [rpc EXCEPT ![c] = "hung"]
            /\ rwake' = [rwake EXCEPT ![c] = now + Backoff(i)]
            /\ slept' = [slept EXCEPT ![c] = Append(@, Backoff(i))]
            /\ UNCHANGED rres

\* The catch block of withRetry for caller c, loop index i, retries r:
\* rethrow on the last attempt, otherwise start the backoff timer.
Catch(c, i, r, err) ==
    /\ rerr' = [rerr EXCEPT ![c] = err]
    /\ ri' = [ri EXCEPT ![c] = i]
    /\ IF LastAttempt(i, r)
       THEN /\ rpc' = [rpc EXCEPT ![c] = "done"]
            /\ rres' = [rres EXCEPT ![c] = err]
            /\ UNCHANGED <<rwake, slept>>
       ELSE /\ rpc' = [rpc EXCEPT ![c] = "sleep"]
            /\ rwake' = [rwake EXCEPT ![c] = now + Backoff(i)]
            /\ slept' = [slept EXCEPT ![c] = Append(@, Backoff(i))]
            /\ UNCHANGED rres

\* The promise of CircuitBreaker.call settles with res.  A caller that called
\* the breaker itself has its outcome; withRetry is suspended at `await fn()`
\* and resumes on the outcome in a later job.
CallSettles(c, direct, res) ==
    IF direct
    THEN /\ rpc' = [rpc EXCEPT ![c] = "done"]
         /\ rres' = [rres EXCEPT ![c] = res]
         /\ rerr' = IF IsError(res) THEN [rerr EXCEPT ![c] = res] ELSE rerr
         /\ UNCHANGED rcall
    ELSE /\ rpc' = [rpc EXCEPT ![c] = "resume"]
         /\ rcall' = [rcall EXCEPT ![c] = res]
         /\ UNCHANGED <<rres, rerr>>

\* CircuitBreaker.call up to its await, on attempt i: the guard throws
\* 'Circuit is OPEN', or the origin is invoked and awaited.
BreakerEnter(c, direct, i) ==
    /\ attempts' = [attempts EXCEPT ![c] = @ + 1]
    /\ rentry' = [rentry EXCEPT ![c] = state]
    /\ IF Rejects(state)
       THEN /\ CallSettles(c, direct, OpenError(i))
            /\ UNCHANGED originCalls
       ELSE /\ rpc' = [rpc EXCEPT ![c] = "await"]
            /\ originCalls' = originCalls + 1
            /\ UNCHANGED <<rerr, rres, rcall>>

\* One loop iteration of withRetry up to its await: fn() enters
\* CircuitBreaker.call.
Attempt(c, i) ==
    /\ ri' = [ri EXCEPT ![c] = i]
    /\ BreakerEnter(c, FALSE, i)
    /\ UNCHANGED <<rwake, slept>>

\* The for statement with loop variable i: the next iteration while i < retries,
\* otherwise the function falls off its end and returns undefined.
Loop(c, i, r) ==
    IF i < r
    THEN Attempt(c, i)
    ELSE /\ rpc' = [rpc EXCEPT ![c] = "done"]
         /\ rres' = [rres EXCEPT ![c] = Undefined]
         /\ ri' = [ri EXCEPT ![c] = i]
         /\ UNCHANGED <<rwake, rerr, rcall, rentry, attempts, slept, originCalls>>

\* withRetry(() => breaker.call(origin), r, Delay) is called.
Call(c, r) ==
    /\ rpc[c] = "idle"
    /\ started' = started + 1
    /\ rretries' = [rretries EXCEPT ![c] = r]
    /\ rdirect' = [rdirect EXCEPT ![c] = FALSE]
    /\ Loop(c, 0, r)
    /\ UNCHANGED <<now, bvars, openedAt, recent, cvars, xvars>>

\* breaker.call(origin) is called by the caller itself.
BreakerCall(c) ==
    /\ rpc[c] = "idle"
    /\ started' = started + 1
    /\ rdirect' = [rdirect EXCEPT ![c] = TRUE]
    /\ BreakerEnter(c, TRUE, 0)
    /\ UNCHANGED <<now, bvars, rretries, ri, rwake, slept, openedAt, recent, cvars, xvars>>

\* The origin promise awaited in CircuitBreaker.call resolves.
OriginResolve(c) ==
    /\ rpc[c] = "await"
    /\ failures' = AfterSuccess(failures)
    /\ recent' = LastN(Append(recent, "ok"), MaxThreshold)
    /\ CallSettles(c, rdirect[c], Value(c, ri[c]))
    /\ UNCHANGED <<now, threshold, timeout, state, hoTimers, rretries, ri, rwake,
                   rdirect, rentry, started, attempts, slept, originCalls, openedAt,
                   cvars, xvars>>

\* The origin promise awaited in CircuitBreaker.call rejects.
OriginReject(c) ==
    /\ rpc[c] = "await"
    /\ failures' = failures + 1
    /\ recent' = LastN(Append(recent, "fail"), MaxThreshold)
    /\ IF Tripped(failures + 1, threshold)
       THEN /\ state' = "OPEN"
            /\ hoTimers' = Append(hoTimers, now + timeout)
            /\ openedAt' = IF state = "OPEN" THEN openedAt ELSE now
       ELSE UNCHANGED <<state, hoTimers, openedAt>>
    /\ CallSettles(c, rdirect[c], OriginError(ri[c]))
    /\ UNCHANGED <<now, threshold, timeout, rretries, ri, rwake, rdirect, rentry,
                   started, attempts, slept, originCalls, cvars, xvars>>

\* withRetry resumes after `await fn()`: it returns the value breaker.call
\* resolved to, or runs its catch block on the error it rejected with.
RetryResume(c) ==
    /\ rpc[c] = "resume"
    /\ rcall' = [rcall EXCEPT ![c] = None]
    /\ IF IsError(rcall[c])
       THEN Catch(c, ri[c], rretries[c], rcall[c])
       ELSE /\ rpc' = [rpc EXCEPT ![c] = "done"]
            /\ rres' = [rres EXCEPT ![c] = rcall[c]]
            /\ UNCHANGED <<ri, rwake, rerr, slept>>
    /\ UNCHANGED <<now, bvars, rretries, rdirect, rentry, started, attempts,
                   originCalls, openedAt, recent, cvars, xvars>>

\* no promise job is waiting to run: timer callbacks run between jobs of the
\* event loop only once the microtask queue is empty
NoJobPending == \A c \in Callers : rpc[c] # "resume"

\* The backoff timer of caller c fires: i++ and the next loop iteration.
Wake(c) ==
    /\ rpc[c] = "sleep"
    /\ now >= rwake[c]
    /\ NoJobPending
    /\ Loop(c, ri[c] + 1, rretries[c])
    /\ UNCHANGED <<now, bvars, rretries, rdirect, started, openedAt, recent, cvars, xvars>>

\* ------------------------------------------------------------------ timers
\* The oldest pending half-open timer fires.
HalfOpenTimer ==
    /\ hoTimers # <<>>
    /\ now >= Head(hoTimers)
    /\ NoJobPending
    /\ state' = "HALF-OPEN"
    /\ hoTimers' = Tail(hoTimers)
    /\ UNCHANGED <<now, failures, threshold, timeout, rvars, ovars, cvars, xvars>>

\* Time passes.
Tick ==
    /\ now < MaxTime
    /\ now' = now + 1
    /\ UNCHANGED <<bvars, rvars, ovars, cvars, xvars>>

\* Time passes beyond MaxTime while a backoff timer is still pending: the clock
\* always reaches the deadline of a timer that was set.
TickToTimer ==
    /\ now >= MaxTime
    /\ \E c \in Callers : rpc[c] = "sleep" /\ rwake[c] > now
    /\ now' = now + 1
    /\ UNCHANGED <<bvars, rvars, ovars, cvars, xvars>>

\* The caller has consumed the settled promise and is free to call again.
Return(c) ==
    /\ rpc[c] = "done"
    /\ rpc' = [rpc EXCEPT ![c] = "idle"]
    /\ rres' = [rres EXCEPT ![c] = None]
    /\ rerr' = [rerr EXCEPT ![c] = None]
    /\ ri' = [ri EXCEPT ![c] = 0]
    /\ rretries' = [rretries EXCEPT ![c] = 0]
    /\ rdirect' = [rdirect EXCEPT ![c] = FALSE]
    /\ rentry' = [rentry EXCEPT ![c] = "none"]
    /\ attempts' = [attempts EXCEPT ![c] = 0]
    /\ slept' = [slept EXCEPT ![c] = <<>>]
    /\ UNCHANGED <<now, bvars, rwake, rcall, started, originCalls, openedAt, recent,
                   cvars, xvars>>

\* ------------------------------------------------------------------ getUser
\* Redis executes a command some time after the client has sent it and the
\* reply arrives some time after that; other connections' commands may be
\* executed in between.  Every getUser call shares the one `redis` client,
\* whose commands Redis executes in the order they were sent; each
\* cacheAsideExample call and redisOperations open a connection of their own.
\* `up` is whether the command reaches Redis and is carried out.  Callers are
\* numbered in the order they call, and each makes one call.

\* getUser(id) is called: redis.get(`user:${id}`) is sent and awaited.
GetUser(c, id) ==
    /\ gpc[c] = "idle"
    /\ c = gstarted + 1
    /\ gstarted' = gstarted + 1
    /\ gid' = [gid EXCEPT ![c] = id]
    /\ gpc' = [gpc EXCEPT ![c] = "get"]
    /\ gfn' = [gfn EXCEPT ![c] = "getUser"]
    /\ pipe' = Append(pipe, c)
    /\ UNCHANGED <<now, bvars, rvars, ovars, xvars, cache, opc, oreply, ores, greply, guser, gres, gdriver, dbCalls, loaded>>

\* Redis executes the GET of getUser caller c, the oldest command of the
\* shared client.
RedisGet(c, up) ==
    /\ gpc[c] = "get"
    /\ gfn[c] = "getUser"
    /\ greply[c] = None
    /\ pipe # <<>>
    /\ Head(pipe) = c
    /\ pipe' = Tail(pipe)
    /\ greply' = [greply EXCEPT ![c] = IF up THEN CacheGet(cache, gid[c], now)
                                              ELSE RedisError]
    /\ UNCHANGED <<now, bvars, rvars, ovars, xvars, cache, opc, oreply, ores, gpc, gid, guser, gres, gstarted, gdriver,
                   dbCalls, loaded, gfn>>

\* a caller other than c whose fetch of c's id is running (it awaits findById
\* or its redis.set), 0 if there is none
RunningFetch(c) ==
    LET others == {d \in GetCallers : /\ d # c
                                      /\ gid[d] = gid[c]
                                      /\ gpc[d] \in {"find", "set"}}
    IN  IF others = {} THEN 0 ELSE CHOOSE d \in others : \A e \in others : d <= e

\* a getUser that empties the whole store when its redis.get is rejected
RedisGetReplyFlushes(c) ==
    /\ gpc[c] = "get"
    /\ gfn[c] = "getUser"
    /\ greply[c] # None
    /\ greply' = [greply EXCEPT ![c] = None]
    /\ IF IsError(greply[c])
       THEN /\ gpc' = [gpc EXCEPT ![c] = "done"]
            /\ gres' = [gres EXCEPT ![c] = greply[c]]
            /\ cache' = [k \in Keys |-> NoEntry]
            /\ UNCHANGED <<dbCalls, gdriver>>
       ELSE IF Truthy(greply[c])
       THEN /\ gpc' = [gpc EXCEPT ![c] = "done"]
            /\ gres' = [gres EXCEPT ![c] = Parse(greply[c])]
            /\ UNCHANGED <<cache, dbCalls, gdriver>>
       ELSE /\ gpc' = [gpc EXCEPT ![c] = "find"]
            /\ dbCalls' = [dbCalls EXCEPT ![gid[c]] = @ + 1]
            /\ gdriver' = [gdriver EXCEPT ![c] = RunningFetch(c)]
            /\ UNCHANGED <<cache, gres>>
    /\ UNCHANGED <<now, bvars, rvars, ovars, xvars, pipe, opc, oreply, ores, loaded, gfn, gid, guser, gstarted>>

\* The reply of redis.get arrives: a rejection is thrown; a string is parsed
\* and the value returned, or the SyntaxError of JSON.parse thrown; a miss
\* invokes db.users.findById(id).
RedisGetReply(c) ==
    /\ gpc[c] = "get"
    /\ gfn[c] = "getUser"
    /\ greply[c] # None
    /\ greply' = [greply EXCEPT ![c] = None]
    /\ IF IsError(greply[c])
       THEN /\ gpc' = [gpc EXCEPT ![c] = "done"]
            /\ gres' = [gres EXCEPT ![c] = greply[c]]
            /\ UNCHANGED <<dbCalls, gdriver>>
       ELSE IF Truthy(greply[c])
       THEN /\ gpc' = [gpc EXCEPT ![c] = "done"]
            /\ gres' = [gres EXCEPT ![c] = Parse(greply[c])]
            /\ UNCHANGED <<dbCalls, gdriver>>
       ELSE /\ gpc' = [gpc EXCEPT ![c] = "find"]
            /\ dbCalls' = [dbCalls EXCEPT ![gid[c]] = @ + 1]
            /\ gdriver' = [gdriver EXCEPT ![c] = RunningFetch(c)]
            /\ UNCHANGED gres
    /\ UNCHANGED <<now, bvars, rvars, ovars, xvars, cache, pipe, opc, oreply, ores, loaded, gfn, gid, guser, gstarted>>

\* findById resolves to v: redis.set(key, JSON.stringify(user), 'EX', 3600) is
\* sent and awaited.
DbResolve(c, v) ==
    /\ gpc[c] = "find"
    /\ guser' = [guser EXCEPT ![c] = v]
    /\ gpc' = [gpc EXCEPT ![c] = "set"]
    /\ pipe' = Append(pipe, c)
    /\ loaded' = [loaded EXCEPT ![gid[c]] = @ \cup {v}]
    /\ UNCHANGED <<now, bvars, rvars, ovars, xvars, cache, opc, oreply, ores, gfn, gid, greply, gres, gstarted, gdriver, dbCalls>>

\* a failure path that caches "no such user" before it throws
DbRejectCachesNull(c) ==
    /\ gpc[c] = "find"
    /\ gpc' = [gpc EXCEPT ![c] = "done"]
    /\ gres' = [gres EXCEPT ![c] = DbError]
    /\ cache' = [cache EXCEPT ![gid[c]] = Entry(Stringify(Null), now, Ttl)]
    /\ UNCHANGED <<now, bvars, rvars, ovars, xvars, pipe, opc, oreply, ores, loaded, gfn, gid, greply, guser, gstarted, gdriver,
                   dbCalls>>

\* findById rejects: getUser has no try/catch, the error is the caller's.
DbReject(c) ==
    /\ gpc[c] = "find"
    /\ gpc' = [gpc EXCEPT ![c] = "done"]
    /\ gres' = [gres EXCEPT ![c] = DbError]
    /\ UNCHANGED <<now, bvars, rvars, ovars, xvars, cache, pipe, opc, oreply, ores, loaded, gfn, gid, greply, guser, gstarted,
                   gdriver, dbCalls>>

\* a redis.set without 'EX', 3600: the entry never expires
RedisSetNoExpiry(c, up) ==
    /\ gpc[c] = "set"
    /\ gfn[c] = "getUser"
    /\ greply[c] = None
    /\ pipe # <<>>
    /\ Head(pipe) = c
    /\ pipe' = Tail(pipe)
    /\ IF up
       THEN /\ cache' = [cache EXCEPT ![gid[c]] = Persistent(Stringify(guser[c]))]
            /\ greply' = [greply EXCEPT ![c] = Ok]
       ELSE /\ greply' = [greply EXCEPT ![c] = RedisError]
            /\ UNCHANGED cache
    /\ UNCHANGED <<now, bvars, rvars, ovars, xvars, opc, oreply, ores, gpc, gid, guser, gres, gstarted, gdriver, dbCalls,
                   loaded, gfn>>

\* Redis executes the SET of getUser caller c, the oldest command of the
\* shared client: whatever the key held is replaced by the JSON text, with a
\* time to live of 3600 s.
RedisSet(c, up) ==
    /\ gpc[c] = "set"
    /\ gfn[c] = "getUser"
    /\ greply[c] = None
    /\ pipe # <<>>
    /\ Head(pipe) = c
    /\ pipe' = Tail(pipe)
    /\ IF up
       THEN /\ cache' = [cache EXCEPT ![gid[c]] = Entry(Stringify(guser[c]), now, Ttl)]
            /\ greply' = [greply EXCEPT ![c] = Ok]
       ELSE /\ greply' = [greply EXCEPT ![c] = RedisError]
            /\ UNCHANGED cache
    /\ UNCHANGED <<now, bvars, rvars, ovars, xvars, opc, oreply, ores, gpc, gid, guser, gres, gstarted, gdriver, dbCalls,
                   loaded, gfn>>

\* The reply of redis.set arrives: a rejection is thrown, otherwise `user` is returned.
RedisSetReply(c) ==
    /\ gpc[c] = "set"
    /\ gfn[c] = "getUser"
    /\ greply[c] # None
    /\ greply' = [greply EXCEPT ![c] = None]
    /\ gpc' = [gpc EXCEPT ![c] = "done"]
    /\ gres' = [gres EXCEPT ![c] = IF IsError(greply[c]) THEN greply[c] ELSE guser[c]]
    /\ UNCHANGED <<now, bvars, rvars, ovars, xvars, cache, pipe, opc, oreply, ores, loaded, gfn, gid, guser, gstarted, gdriver,
                   dbCalls>>

\* ------------------------------------------------------------------ cacheAsideExample
\* cacheAsideExample(id) is called: a client is created with new Redis() and
\* redis.get(`user:${userId}`) is handed to it and awaited.
CacheAsideExample(c, id) ==
    /\ gpc[c] = "idle"
    /\ c = gstarted + 1
    /\ gstarted' = gstarted + 1
    /\ gid' = [gid EXCEPT ![c] = id]
    /\ gpc' = [gpc EXCEPT ![c] = "get"]
    /\ gfn' = [gfn EXCEPT ![c] = "cacheAsideExample"]
    /\ UNCHANGED <<now, bvars, rvars, ovars, xvars, cache, pipe, opc, oreply, ores, greply, guser, gres, gdriver, dbCalls, loaded>>

\* Redis executes the GET of cacheAsideExample caller c, once the caller's
\* connection is up.
CacheAsideGet(c, up) ==
    /\ gpc[c] = "get"
    /\ gfn[c] = "cacheAsideExample"
    /\ greply[c] = None
    /\ greply' = [greply EXCEPT ![c] = IF up THEN CacheGet(cache, gid[c], now)
                                              ELSE RedisError]
    /\ UNCHANGED <<now, bvars, rvars, ovars, xvars, cache, pipe, opc, oreply, ores, gpc, gid, guser, gres, gstarted, gdriver,
                   dbCalls, loaded, gfn>>

\* The reply of cacheAsideExample's redis.get arrives: a rejection is thrown;
\* a string is parsed and the value returned, or the SyntaxError of JSON.parse
\* thrown; on a miss the user is built in place and
\* redis.set(cacheKey, JSON.stringify(user), 'EX', 600) is sent and awaited.
CacheAsideGetReply(c) ==
    /\ gpc[c] = "get"
    /\ gfn[c] = "cacheAsideExample"
    /\ greply[c] # None
    /\ greply' = [greply EXCEPT ![c] = None]
    /\ IF IsError(greply[c])
       THEN /\ gpc' = [gpc EXCEPT ![c] = "done"]
            /\ gres' = [gres EXCEPT ![c] = greply[c]]
            /\ UNCHANGED <<guser, dbCalls, loaded, gdriver>>
       ELSE IF Truthy(greply[c])
       THEN /\ gpc' = [gpc EXCEPT ![c] = "done"]
            /\ gres' = [gres EXCEPT ![c] = Parse(greply[c])]
            /\ UNCHANGED <<guser, dbCalls, loaded, gdriver>>
       ELSE /\ guser' = [guser EXCEPT ![c] = FromDb(gid[c])]
            /\ dbCalls' = [dbCalls EXCEPT ![gid[c]] = @ + 1]
            /\ loaded' = [loaded EXCEPT ![gid[c]] = @ \cup {FromDb(gid[c])}]
            /\ gdriver' = [gdriver EXCEPT ![c] = RunningFetch(c)]
            /\ gpc' = [gpc EXCEPT ![c] = "set"]
            /\ UNCHANGED gres
    /\ UNCHANGED <<now, bvars, rvars, ovars, xvars, cache, pipe, opc, oreply, ores, gfn, gid, gstarted>>

\* Redis executes the SET of cacheAsideExample caller c: whatever the key held
\* is replaced by the JSON text, with a time to live of 600 s.
CacheAsideSet(c, up) ==
    /\ gpc[c] = "set"
    /\ gfn[c] = "cacheAsideExample"
    /\ greply[c] = None
    /\ IF up
       THEN /\ cache' = [cache EXCEPT ![gid[c]] =
                            Entry(Stringify(guser[c]), now, CacheAsideTtl)]
            /\ greply' = [greply EXCEPT ![c] = Ok]
       ELSE /\ greply' = [greply EXCEPT ![c] = RedisError]
            /\ UNCHANGED cache
    /\ UNCHANGED <<now, bvars, rvars, ovars, xvars, pipe, opc, oreply, ores, gpc, gid, guser, gres, gstarted, gdriver, dbCalls,
                   loaded, gfn>>

\* The reply of cacheAsideExample's redis.set arrives: a rejection is thrown,
\* otherwise `user` is returned.
CacheAsideSetReply(c) ==
    /\ gpc[c] = "set"
    /\ gfn[c] = "cacheAsideExample"
    /\ greply[c] # None
    /\ greply' = [greply EXCEPT ![c] = None]
    /\ gpc' = [gpc EXCEPT ![c] = "done"]
    /\ gres' = [gres EXCEPT ![c] = IF IsError(greply[c]) THEN greply[c] ELSE guser[c]]
    /\ UNCHANGED <<now, bvars, rvars, ovars, xvars, cache, pipe, opc, oreply, ores, loaded, gfn, gid, guser, gstarted,
                   gdriver, dbCalls>>

\* ------------------------------------------------------------------ redisOperations
\* redisOperations of src/postgres.js 512-601 awaits one Redis command after
\* another on a connection of its own; the first command that is rejected
\* ends it.  Redis executes a command some time after it was sent and the
\* function is resumed when the reply arrives, later; in between time passes
\* and other connections' commands are executed.  Of its commands, those on
\* 'user:1:name' and 'user:100' touch keys the cache-aside functions use; the
\* commands on other keys are part of the step that sends the next command on
\* one of these two.  It is called once.
gvars == <<gpc, gid, greply, guser, gres, gstarted, gdriver, dbCalls, loaded, gfn>>

\* redisOperations is called: redis.set('user:1:name', 'John Doe') is sent.
RedisOperations ==
    /\ opc = "idle"
    /\ opc' = "set"
    /\ UNCHANGED <<now, bvars, rvars, ovars, xvars, cache, pipe, oreply, ores, gvars>>

\* the command redisOperations sends after the one named
NextCommand(cmd) ==
    CASE cmd = "set" -> "hset"
      [] cmd = "hset" -> "hget"
      [] cmd = "hget" -> "hgetall"
      [] cmd = "hgetall" -> "hincrby"
      [] cmd = "hincrby" -> "lists"
      [] cmd = "lists" -> "done"

\* Redis executes SET user:1:name 'John Doe': the key holds the name from now
\* on, without a time to live.
OpSet(up) ==
    /\ opc = "set"
    /\ oreply = None
    /\ IF up
       THEN /\ cache' = [cache EXCEPT ![NameUser] = Persistent(Text("John Doe"))]
            /\ oreply' = Ok
       ELSE /\ oreply' = RedisError
            /\ UNCHANGED cache
    /\ UNCHANGED <<now, bvars, rvars, ovars, xvars, pipe, opc, ores, gvars>>

\* the reply of Redis to a hash command on user:100 at time t
HashReply(up, t) ==
    IF ~up THEN RedisError
    ELSE IF NotAHash(cache, HashUser, t) THEN WrongType
    ELSE Ok

\* Redis executes HSET user:100 name Jane email ... age 25.
OpHset(up) ==
    /\ opc = "hset"
    /\ oreply = None
    /\ oreply' = HashReply(up, now)
    /\ cache' = IF up THEN Hset(cache, HashUser, now, JaneProfile) ELSE cache
    /\ UNCHANGED <<now, bvars, rvars, ovars, xvars, pipe, opc, ores, gvars>>

\* Redis executes HGET user:100 email.
OpHget(up) ==
    /\ opc = "hget"
    /\ oreply = None
    /\ oreply' = HashReply(up, now)
    /\ UNCHANGED <<now, bvars, rvars, ovars, xvars, cache, pipe, opc, ores, gvars>>

\* Redis executes HGETALL user:100.
OpHgetall(up) ==
    /\ opc = "hgetall"
    /\ oreply = None
    /\ oreply' = HashReply(up, now)
    /\ UNCHANGED <<now, bvars, rvars, ovars, xvars, cache, pipe, opc, ores, gvars>>

\* Redis executes HINCRBY user:100 age 1.
OpHincrby(up) ==
    /\ opc = "hincrby"
    /\ oreply = None
    /\ oreply' = HashReply(up, now)
    /\ cache' = IF up THEN Hincrby(cache, HashUser, now) ELSE cache
    /\ UNCHANGED <<now, bvars, rvars, ovars, xvars, pipe, opc, ores, gvars>>

\* Redis executes the commands on lists, sets and sorted sets, which are on
\* keys of their own, or one of them is rejected.
OpRest(up) ==
    /\ opc = "lists"
    /\ oreply = None
    /\ oreply' = IF up THEN Ok ELSE RedisError
    /\ UNCHANGED <<now, bvars, rvars, ovars, xvars, cache, pipe, opc, ores, gvars>>

\* The reply to the awaited command arrives: an error reply is thrown and
\* redisOperations is rejected with it; otherwise the function goes on to its
\* next command on one of the two keys, through the commands on session:123,
\* lock:resource and page_views after the SET, and returns after the last.
OpReply ==
    /\ opc \notin {"idle", "done"}
    /\ oreply # None
    /\ oreply' = None
    /\ IF IsError(oreply)
       THEN /\ opc' = "done"
            /\ ores' = oreply
       ELSE /\ opc' = NextCommand(opc)
            /\ ores' = IF NextCommand(opc) = "done" THEN Undefined ELSE ores
    /\ UNCHANGED <<now, bvars, rvars, ovars, xvars, cache, pipe, gvars>>

\* Time passes for the Redis expiry clock.
CacheTick ==
    /\ now + ClockStep <= MaxCacheTime
    /\ now' = now + ClockStep
    /\ UNCHANGED <<bvars, rvars, ovars, cvars, xvars>>

\* ------------------------------------------------------------------ specifications
\* Spec: callers call breaker.call(origin) directly and repeatedly.
Next ==
    \/ \E c \in Callers : started < MaxCalls /\ BreakerCall(c)
    \/ \E c \in Callers : OriginResolve(c)
    \/ \E c \in Callers : OriginReject(c)
    \/ \E c \in Callers : Return(c)
    \/ HalfOpenTimer
    \/ Tick

Spec == Init /\ [][Next]_vars

\* SpecRetry: every caller makes one withRetry(() => breaker.call(origin), r, Delay).
NextRetry ==
    \/ \E c \in RetryCallers, r \in 0..MaxRetries : Call(c, r)
    \/ \E c \in Callers : OriginResolve(c)
    \/ \E c \in Callers : OriginReject(c)
    \/ \E c \in Callers : RetryResume(c)
    \/ \E c \in Callers : Wake(c)
    \/ HalfOpenTimer
    \/ Tick

SpecRetry == Init /\ [][NextRetry]_vars

\* SpecRetryFair: every caller makes one withRetry(() => breaker.call(origin))
\* with the default number of retries, under the progress the runtime gives:
\* every origin promise settles, time passes, and a timer whose deadline has
\* passed fires.
NextRetryLive ==
    \/ \E c \in RetryCallers : Call(c, DefaultRetries)
    \/ \E c \in Callers : OriginResolve(c)
    \/ \E c \in Callers : OriginReject(c)
    \/ \E c \in Callers : RetryResume(c)
    \/ \E c \in Callers : Wake(c)
    \/ HalfOpenTimer
    \/ Tick
    \/ TickToTimer

SpecRetryFair ==
    /\ InitRetryFair
    /\ [][NextRetryLive]_vars
    /\ \A c \in Callers : WF_vars(OriginResolve(c) \/ OriginReject(c))
    /\ \A c \in Callers : WF_vars(RetryResume(c))
    /\ \A c \in Callers : WF_vars(Wake(c))
    /\ WF_vars(Tick)
    /\ WF_vars(TickToTimer)

\* SpecCache: every caller calls getUser(id) or cacheAsideExample(id) once and
\* redisOperations is called once, at any time and concurrently, against the
\* same Redis server.
NextCache ==
    \/ \E c \in GetCallers, id \in Keys : GetUser(c, id)
    \/ \E c \in GetCallers, up \in BOOLEAN : RedisGet(c, up)
    \/ \E c \in GetCallers : RedisGetReply(c)
    \/ \E c \in GetCallers : \E v \in OriginValues(gid[c]) : DbResolve(c, v)
    \/ \E c \in GetCallers : DbReject(c)
    \/ \E c \in GetCallers, up \in BOOLEAN : RedisSet(c, up)
    \/ \E c \in GetCallers : RedisSetReply(c)
    \/ \E c \in GetCallers, id \in Keys : CacheAsideExample(c, id)
    \/ \E c \in GetCallers, up \in BOOLEAN : CacheAsideGet(c, up)
    \/ \E c \in GetCallers : CacheAsideGetReply(c)
    \/ \E c \in GetCallers, up \in BOOLEAN : CacheAsideSet(c, up)
    \/ \E c \in GetCallers : CacheAsideSetReply(c)
    \/ RedisOperations
    \/ \E up \in BOOLEAN : OpSet(up)
    \/ \E up \in BOOLEAN : OpHset(up)
    \/ \E up \in BOOLEAN : OpHget(up)
    \/ \E up \in BOOLEAN : OpHgetall(up)
    \/ \E up \in BOOLEAN : OpHincrby(up)
    \/ \E up \in BOOLEAN : OpRest(up)
    \/ OpReply
    \/ CacheTick

SpecCache == InitCache /\ [][NextCache]_vars

TypeOK ==
    /\ now \in 0..MaxCacheTime
    /\ state \in {"CLOSED", "OPEN", "HALF-OPEN"}
    /\ failures \in Nat
    /\ \A c \in Callers : rpc[c] \in {"idle", "await", "resume", "sleep", "done"}

\* ------------------------------------------------------------------ observations
\* callers suspended on db.users.findById(k)
Fetching(k) == {c \in GetCallers : gpc[c] = "find" /\ gid[c] = k}

\* the store holds an entry for k whose time to live has not run out
Live(k) == Holds(cache, k, now) # NoEntry

\* the last n outcomes the breaker recorded are all failures
LastFailures(s, n) ==
    /\ Len(s) >= n
    /\ \A j \in (Len(s) - n + 1)..Len(s) : s[j] = "fail"

\* in this step the breaker records the failure of caller c's origin call
FailureRecorded(c) ==
    /\ rpc[c] = "await"
    /\ rpc'[c] # "await"
    /\ IsOriginError(rerr'[c])

\* in this step the breaker records the success of caller c's origin call
SuccessRecorded(c) ==
    /\ rpc[c] = "await"
    /\ rpc'[c] = "done"
    /\ IsValue(rres'[c])

\* in this step caller c makes a call
Enters(c) == rpc[c] = "idle" /\ rpc'[c] # "idle"

\* calls admitted while the breaker was HALF-OPEN whose origin call is outstanding
Probes == {c \in Callers : rpc[c] = "await" /\ rentry[c] = "HALF-OPEN"}

\* ------------------------------------------------------------------ event loop
\* The two scripts that show the order of callbacks: the four statements of
\* src/backend-examples.js 115-125 and eventLoopExample of src/nodejs.js 65-97,
\* which the module exports for others to call.  A callback is named by the
\* line it prints; a callback that calls eventLoopExample bears its name.
Programs == {"snippet", "eventLoopExample"}

\* where the caller of eventLoopExample calls it from, besides its main
\* module; a caller that calls it more than once does so from one place
CallSites == {"nextTick", "promise", "timer", "immediate", "readFile"}

\* fs.readFile is four thread-pool operations in a row (open, fstat, read,
\* close); its callback runs when the last of them has completed
ReadSteps == 4

\* setTimeout(cb, ms): Node runs a timer of less than 1 ms after 1 ms
TimerDelay(ms) == IF ms < 1 THEN 1 ELSE ms

\* the lines a callback prints with console.log, in statement order
Prints(cb) ==
    CASE cb = "snippet" -> <<"1", "4">>
      [] cb = "eventLoopExample" -> <<"1. Start", "9. End">>
      [] OTHER -> <<cb>>

\* the callbacks a callback passes to setTimeout(..., 0)
Timeouts(cb) ==
    CASE cb = "snippet" -> <<"2">>
      [] cb = "eventLoopExample" -> <<"2. setTimeout">>
      [] cb = "6. I/O Callback" -> <<"7. Inner Timeout">>
      [] OTHER -> <<>>

\* the callbacks a callback passes to setImmediate
Immediates(cb) ==
    CASE cb = "eventLoopExample" -> <<"3. setImmediate">>
      [] cb = "6. I/O Callback" -> <<"8. Inner Immediate">>
      [] OTHER -> <<>>

\* the callbacks a callback passes to process.nextTick
NextTicks(cb) ==
    CASE cb = "eventLoopExample" -> <<"4. nextTick">>
      [] OTHER -> <<>>

\* the callbacks a callback passes to Promise.resolve().then
Thens(cb) ==
    CASE cb = "snippet" -> <<"3">>
      [] cb = "eventLoopExample" -> <<"5. Promise">>
      [] OTHER -> <<>>

\* the callbacks a callback passes to fs.readFile
ReadFiles(cb) ==
    CASE cb = "eventLoopExample" -> <<"6. I/O Callback">>
      [] OTHER -> <<>>

Remove(s, j) == SubSeq(s, 1, j - 1) \o SubSeq(s, j + 1, Len(s))

Max(a, b) == IF a >= b THEN a ELSE b

\* setTimeout(cb, 0) called at clock time t: the timer is stamped with the
\* clock at the call and put behind the timers set before it.  All timers of
\* the two scripts have the same duration, so they are one list, which Node
\* runs in the order they were set.
SetTimers(cb, trq, t) ==
    trq \o [j \in 1..Len(Timeouts(cb)) |-> [cb |-> Timeouts(cb)[j], start |-> t]]

\* Callback cb runs to completion; lt is the loop time and tq, mq, trq, iq and
\* ioq are the queues it finds.  Reading the clock for a setTimeout brings
\* the loop time up to the clock.
RunCallback(cb, lt, tq, mq, trq, iq, ioq) ==
    /\ out' = out \o Prints(cb)
    /\ tickQ' = tq \o NextTicks(cb)
    /\ microQ' = mq \o Thens(cb)
    /\ timerQ' = SetTimers(cb, trq, now)
    /\ ltime' = IF Timeouts(cb) # <<>> THEN now ELSE lt
    /\ immQ' = iq \o Immediates(cb)
    /\ io' = ioq \o [j \in 1..Len(ReadFiles(cb)) |->
                       [cb |-> ReadFiles(cb)[j], left |-> ReadSteps, ready |-> FALSE]]

\* When the loop is due to run the timers after callback cb has run outside
\* the timers phase: the first timer of a list starts the loop's timer handle,
\* which expires the timer's duration after the call; a timer that joins a
\* list leaves the handle as it is.
Armed(cb) ==
    IF Timeouts(cb) # <<>> /\ timerQ = <<>> THEN now + TimerDelay(0) ELSE hdue

\* a promise job that waits for the loop like a timer, not for the callback's end
QuietTicksOnly == tickQ = <<>>

\* nextTick and promise jobs are drained after every callback, before the
\* loop goes on
Quiet == tickQ = <<>> /\ microQ = <<>>

\* whether the timer has run its duration at the time the timers are measured against
Elapsed(timer, t) == t - timer.start >= TimerDelay(0)

\* The main module runs script p: the four statements of the snippet, which
\* are the module's own, or a call of eventLoopExample.
RunMain(p) ==
    /\ phase = "load"
    /\ \/ eprog = "none"
       \/ (p = "eventLoopExample" /\ eprog = p /\ ecalls[1] = "main")
    /\ Len(ecalls) < MaxLoopCalls
    /\ eprog' = p
    /\ ecalls' = Append(ecalls, "main")
    /\ RunCallback(p, ltime, tickQ, microQ, timerQ, immQ, io)
    /\ hdue' = Armed(p)
    /\ UNCHANGED <<now, basevars, restE, draining, tnow, immRun, phase>>

\* The main module hands a callback that calls eventLoopExample to
\* process.nextTick, Promise.resolve().then, setTimeout(..., 0), setImmediate
\* or fs.readFile.
ScheduleCall(site) ==
    /\ phase = "load"
    /\ \/ eprog = "none"
       \/ (eprog = "eventLoopExample" /\ ecalls[1] = site)
    /\ Len(ecalls) < MaxLoopCalls
    /\ eprog' = "eventLoopExample"
    /\ ecalls' = Append(ecalls, site)
    /\ tickQ' = IF site = "nextTick" THEN Append(tickQ, "eventLoopExample") ELSE tickQ
    /\ microQ' = IF site = "promise" THEN Append(microQ, "eventLoopExample") ELSE microQ
    /\ timerQ' = IF site = "timer"
                 THEN Append(timerQ, [cb |-> "eventLoopExample", start |-> now])
                 ELSE timerQ
    /\ hdue' = IF site = "timer" /\ timerQ = <<>> THEN now + TimerDelay(0) ELSE hdue
    /\ ltime' = IF site = "timer" THEN now ELSE ltime
    /\ immQ' = IF site = "immediate" THEN Append(immQ, "eventLoopExample") ELSE immQ
    /\ io' = IF site = "readFile"
             THEN Append(io, [cb |-> "eventLoopExample", left |-> ReadSteps, ready |-> FALSE])
             ELSE io
    /\ UNCHANGED <<now, basevars, restE, out, draining, tnow, immRun, phase>>

\* The main module has run to its end.
MainDone ==
    /\ phase = "load"
    /\ eprog # "none"
    /\ phase' = "start"
    /\ UNCHANGED <<now, basevars, restE, eprog, ecalls, out, tickQ, microQ, draining,
                   timerQ, hdue, tnow, immQ, immRun, io, ltime>>

\* The oldest process.nextTick callback runs.  The nextTick queue is emptied
\* first after the main module and after every callback of the loop; promise
\* jobs that have begun to run are run to the last one, those they queue
\* included, before the nextTick queue is looked at again.
DrainTick ==
    /\ phase # "load"
    /\ tickQ # <<>>
    /\ ~draining
    /\ RunCallback(Head(tickQ), ltime, Tail(tickQ), microQ, timerQ, immQ, io)
    /\ hdue' = Armed(Head(tickQ))
    /\ UNCHANGED <<now, basevars, restE, eprog, ecalls, draining, tnow, immRun, phase>>

\* The oldest promise job runs: once the nextTick queue is empty, or when the
\* job before it was a promise job too.
DrainMicro ==
    /\ phase # "load"
    /\ draining \/ tickQ = <<>>
    /\ microQ # <<>>
    /\ RunCallback(Head(microQ), ltime, tickQ, Tail(microQ), timerQ, immQ, io)
    /\ hdue' = Armed(Head(microQ))
    /\ draining' = (microQ' # <<>>)
    /\ UNCHANGED <<now, basevars, restE, eprog, ecalls, tnow, immRun, phase>>

\* A loop iteration begins: the loop reads the clock; with nothing pending the
\* process exits.
StartIteration ==
    /\ phase = "start"
    /\ Quiet
    /\ IF timerQ = <<>> /\ immQ = <<>> /\ io = <<>>
       THEN phase' = "done" /\ UNCHANGED ltime
       ELSE phase' = "timers" /\ ltime' = now
    /\ UNCHANGED <<now, basevars, restE, eprog, ecalls, out, tickQ, microQ, draining,
                   timerQ, hdue, tnow, immQ, immRun, io>>

\* Timers phase: the timer handle has expired at the loop time.  Node reads
\* the clock once and measures against it every timer it runs in this phase.
ProcessTimers ==
    /\ phase = "timers"
    /\ hdue # NoTimer
    /\ hdue <= ltime
    /\ phase' = "timing"
    /\ tnow' = now
    /\ ltime' = now
    /\ hdue' = NoTimer
    /\ UNCHANGED <<now, basevars, restE, eprog, ecalls, out, tickQ, microQ, draining,
                   timerQ, immQ, immRun, io>>

\* Timers phase: the callback of the oldest timer runs; the nextTick and
\* promise jobs of the timer before it have been drained.  The timer that is
\* then the oldest is looked at as soon as the callback returns: when it has
\* not run its duration, or none is left, the phase ends, and with a timer
\* left the handle is started again for the time the oldest one expires, at
\* least 1 ms after the loop time.  A timer set while the timers run has not
\* run its duration at the time they are measured against.
RunTimer ==
    /\ phase = "timing"
    /\ Quiet
    /\ RunCallback(Head(timerQ).cb, ltime, tickQ, microQ, Tail(timerQ), immQ, io)
    /\ IF timerQ' # <<>> /\ Elapsed(Head(timerQ'), tnow)
       THEN UNCHANGED <<phase, tnow, hdue>>
       ELSE /\ phase' = "poll"
            /\ tnow' = 0
            /\ hdue' = IF timerQ' = <<>> THEN NoTimer
                       ELSE ltime' + Max(Max(Head(timerQ').start + TimerDelay(0), tnow + 1)
                                           - ltime', 1)
    /\ UNCHANGED <<now, basevars, restE, eprog, ecalls, draining, immRun>>

\* Timers phase: the timer handle has not expired at the loop time.
TimersDone ==
    /\ phase = "timers"
    /\ hdue = NoTimer \/ hdue > ltime
    /\ phase' = "poll"
    /\ UNCHANGED <<now, basevars, restE, eprog, ecalls, out, tickQ, microQ, draining,
                   timerQ, hdue, tnow, immQ, immRun, io, ltime>>

\* The thread pool completes the current operation of pending fs request i.
\* The events one poll handles are those it found when it returned.
IoComplete(i) ==
    /\ phase # "polling"
    /\ ~io[i].ready
    /\ io' = [io EXCEPT ![i].ready = TRUE]
    /\ UNCHANGED <<now, basevars, restE, eprog, ecalls, out, tickQ, microQ, draining,
                   timerQ, hdue, tnow, immQ, immRun, phase, ltime>>

\* Poll phase: the completion of request i is handled.  The next operation of
\* the request is started, or after the last one its callback runs.  The loop
\* reads the clock when the poll returns.
PollEvent(i) ==
    /\ phase \in {"poll", "polling"}
    /\ Quiet
    /\ io[i].ready
    /\ phase' = "polling"
    /\ IF io[i].left > 1
       THEN /\ io' = [io EXCEPT ![i].left = @ - 1, ![i].ready = FALSE]
            /\ ltime' = IF phase = "poll" THEN now ELSE ltime
            /\ UNCHANGED <<out, tickQ, microQ, timerQ, hdue, immQ>>
       ELSE /\ RunCallback(io[i].cb, IF phase = "poll" THEN now ELSE ltime,
                           tickQ, microQ, timerQ, immQ, Remove(io, i))
            /\ hdue' = Armed(io[i].cb)
    /\ UNCHANGED <<now, basevars, restE, eprog, ecalls, draining, tnow, immRun>>

\* Poll phase ends: after the events it found, or at once when an immediate
\* is queued, the timer handle is due or nothing is pending; otherwise it
\* blocks.  The check phase that follows runs the immediates queued by now;
\* one queued while it runs waits for the check phase of the next iteration.
PollDone ==
    /\ Quiet
    /\ \/ phase = "polling"
       \/ /\ phase = "poll"
          /\ \A i \in 1..Len(io) : ~io[i].ready
          /\ \/ immQ # <<>>
             \/ (hdue # NoTimer /\ hdue <= now)
             \/ (timerQ = <<>> /\ io = <<>>)
    /\ phase' = "check"
    /\ immRun' = Len(immQ)
    /\ ltime' = IF phase = "poll" THEN now ELSE ltime
    /\ UNCHANGED <<now, basevars, restE, eprog, ecalls, out, tickQ, microQ, draining,
                   timerQ, hdue, tnow, immQ, io>>

\* Check phase: the oldest setImmediate callback runs.
RunImmediate ==
    /\ phase = "check"
    /\ Quiet
    /\ immRun > 0
    /\ immRun' = immRun - 1
    /\ RunCallback(Head(immQ), ltime, tickQ, microQ, timerQ, Tail(immQ), io)
    /\ hdue' = Armed(Head(immQ))
    /\ UNCHANGED <<now, basevars, restE, eprog, ecalls, draining, tnow, phase>>

\* Check phase: the immediates it found have run.
CheckDone ==
    /\ phase = "check"
    /\ Quiet
    /\ immRun = 0
    /\ phase' = "start"
    /\ UNCHANGED <<now, basevars, restE, eprog, ecalls, out, tickQ, microQ, draining,
                   timerQ, hdue, tnow, immQ, immRun, io, ltime>>

\* A millisecond passes; the clock always reaches the time the timers are due.
EvTick ==
    /\ \/ now < MaxLoopTime
       \/ (hdue # NoTimer /\ hdue > now)
    /\ now' = now + 1
    /\ UNCHANGED <<basevars, restE, evars>>

\* SpecLoop: a Node process runs a main module, which is the snippet or calls
\* eventLoopExample MaxLoopCalls times at most, and then its event loop.
InitLoop ==
    /\ now = 0
    /\ InitBreaker(1, 1)
    /\ InitCacheStore
    /\ InitEventLoop
    /\ InitRestE

NextLoop ==
    \/ \E p \in Programs : RunMain(p)
    \/ \E site \in CallSites : ScheduleCall(site)
    \/ MainDone
    \/ DrainTick
    \/ DrainMicro
    \/ StartIteration
    \/ ProcessTimers
    \/ RunTimer
    \/ TimersDone
    \/ \E i \in 1..Len(io) : IoComplete(i)
    \/ \E i \in 1..Len(io) : PollEvent(i)
    \/ PollDone
    \/ RunImmediate
    \/ CheckDone
    \/ EvTick

SpecLoop == InitLoop /\ [][NextLoop]_vars

\* ------------------------------------------------------------------ PostgreSQL
\* connectToPostgres, crudOperations and advancedFeatures of src/postgres.js.
\* `ok` is whether the awaited call resolves; a query that fails rejects.
PgFunctions == {"connectToPostgres", "crudOperations", "advancedFeatures"}

\* the number of awaited client.query calls in crudOperations
CrudQueries == 6

\* UPDATE ... SET balance = balance + d WHERE id = ..., or $inc: the accounts
\* after the statement; a statement that matches no row changes nothing
Inc(view, id, d) ==
    IF view[id].exists THEN [view EXCEPT ![id].balance = @ + d] ELSE view

\* One of the three functions is called.
PgCall(f) ==
    /\ tpc = "idle"
    /\ tcalls < MaxTxCalls
    /\ tcalls' = tcalls + 1
    /\ tfn' = f
    /\ tpc' = "connect"
    /\ tqn' = 0
    /\ tsender' = 1
    /\ treceiver' = 2
    /\ tamount' = Amount
    /\ bal0' = bal
    /\ pbefore' = pout
    /\ prel' = 0
    /\ pgot' = FALSE
    /\ terr' = ""
    /\ tres' = Pending
    /\ UNCHANGED <<now, basevars, restT, bal, work, pout, sess>>

\* pool.connect() settles.  connectToPostgres releases the client at once and
\* catches a failed connect; the other two call it outside their try.
PgConnect(ok) ==
    /\ tpc = "connect"
    /\ tfn \in PgFunctions
    /\ IF ok
       THEN /\ pgot' = TRUE
            /\ terr' = terr
            /\ IF tfn = "connectToPostgres"
               THEN /\ pout' = (pout + 1) - 1
                    /\ prel' = prel + 1
                    /\ tpc' = "done"
                    /\ tres' = Fulfilled
               ELSE /\ pout' = pout + 1
                    /\ prel' = prel
                    /\ tpc' = IF tfn = "crudOperations" THEN "query" ELSE "begin"
                    /\ tres' = tres
       ELSE /\ terr' = IF tfn = "connectToPostgres" THEN "connect" ELSE terr
            /\ tpc' = "done"
            /\ tres' = IF tfn = "connectToPostgres" THEN Fulfilled
                                                       ELSE RejectedWith("connect")
            /\ UNCHANGED <<pgot, pout, prel>>
    /\ UNCHANGED <<now, basevars, restT, tfn, tqn, tsender, treceiver, tamount, bal,
                   work, bal0, pbefore, sess, tcalls>>

\* a crudOperations that releases the client at the end of its try block
CrudQueryNoFinally(ok) ==
    /\ tpc = "query"
    /\ IF ok /\ tqn + 1 < CrudQueries
       THEN /\ tqn' = tqn + 1
            /\ UNCHANGED <<tpc, tres, terr, pout, prel>>
       ELSE /\ tqn' = IF ok THEN tqn + 1 ELSE tqn
            /\ pout' = IF ok THEN pout - 1 ELSE pout
            /\ prel' = IF ok THEN prel + 1 ELSE prel
            /\ tpc' = "done"
            /\ tres' = IF ok THEN Fulfilled ELSE RejectedWith("query")
            /\ terr' = terr
    /\ UNCHANGED <<now, basevars, restT, tfn, tsender, treceiver, tamount, bal, work,
                   bal0, pbefore, pgot, sess, tcalls>>

\* crudOperations: an awaited client.query settles.  After the last query, or
\* when one rejects, the finally block releases the client.
CrudQuery(ok) ==
    /\ tpc = "query"
    /\ IF ok /\ tqn + 1 < CrudQueries
       THEN /\ tqn' = tqn + 1
            /\ UNCHANGED <<tpc, tres, terr, pout, prel>>
       ELSE /\ tqn' = IF ok THEN tqn + 1 ELSE tqn
            /\ pout' = pout - 1
            /\ prel' = prel + 1
            /\ tpc' = "done"
            /\ tres' = IF ok THEN Fulfilled ELSE RejectedWith("query")
            /\ terr' = terr
    /\ UNCHANGED <<now, basevars, restT, tfn, tsender, treceiver, tamount, bal, work,
                   bal0, pbefore, pgot, sess, tcalls>>

\* advancedFeatures: BEGIN settles; on an error the catch block issues ROLLBACK.
PgBegin(ok) ==
    /\ tpc = "begin"
    /\ IF ok
       THEN /\ work' = Tx(bal)
            /\ tpc' = "withdraw"
            /\ terr' = terr
       ELSE /\ work' = work
            /\ tpc' = "rollback"
            /\ terr' = "begin"
    /\ UNCHANGED <<now, basevars, restT, tfn, tqn, tsender, treceiver, tamount, bal,
                   bal0, tres, pout, pbefore, prel, pgot, sess, tcalls>>

\* advancedFeatures: the withdraw statement settles.
PgWithdraw(ok) ==
    /\ tpc = "withdraw"
    /\ IF ok
       THEN /\ bal' = bal
            /\ work' = Tx(Inc(work.view, tsender, -tamount))
            /\ tpc' = "deposit"
            /\ terr' = terr
       ELSE /\ bal' = bal
            /\ work' = work
            /\ tpc' = "rollback"
            /\ terr' = "withdraw"
    /\ UNCHANGED <<now, basevars, restT, tfn, tqn, tsender, treceiver, tamount,
                   bal0, tres, pout, pbefore, prel, pgot, sess, tcalls>>

\* advancedFeatures: the deposit statement settles.
PgDeposit(ok) ==
    /\ tpc = "deposit"
    /\ IF ok
       THEN /\ work' = Tx(Inc(work.view, treceiver, tamount))
            /\ tpc' = "commit"
            /\ terr' = terr
       ELSE /\ work' = work
            /\ tpc' = "rollback"
            /\ terr' = "deposit"
    /\ UNCHANGED <<now, basevars, restT, tfn, tqn, tsender, treceiver, tamount, bal,
                   bal0, tres, pout, pbefore, prel, pgot, sess, tcalls>>

\* advancedFeatures: COMMIT settles.  On success the finally block releases the
\* client.  A COMMIT that rejects has either not been applied, or has been
\* applied with its acknowledgement lost (`applied`).
PgCommit(ok, applied) ==
    /\ tpc = "commit"
    /\ work' = NoTx
    /\ IF ok
       THEN /\ bal' = work.view
            /\ pout' = pout - 1
            /\ prel' = prel + 1
            /\ tpc' = "done"
            /\ tres' = Fulfilled
            /\ terr' = terr
       ELSE /\ bal' = IF applied THEN work.view ELSE bal
            /\ tpc' = "rollback"
            /\ terr' = "commit"
            /\ UNCHANGED <<pout, prel, tres>>
    /\ UNCHANGED <<now, basevars, restT, tfn, tqn, tsender, treceiver, tamount,
                   bal0, pbefore, pgot, sess, tcalls>>

\* advancedFeatures: the ROLLBACK of the catch block settles; the transaction
\* is discarded, the finally block releases the client.  The caught error is
\* logged and not rethrown; an error of ROLLBACK itself leaves the function.
PgRollback(ok) ==
    /\ tpc = "rollback"
    /\ work' = NoTx
    /\ pout' = pout - 1
    /\ prel' = prel + 1
    /\ tpc' = "done"
    /\ tres' = IF ok THEN Fulfilled ELSE RejectedWith("rollback")
    /\ terr' = terr
    /\ UNCHANGED <<now, basevars, restT, tfn, tqn, tsender, treceiver, tamount, bal,
                   bal0, pbefore, pgot, sess, tcalls>>

\* The caller has consumed the settled promise.
TxReturn ==
    /\ tpc = "done"
    /\ tpc' = "idle"
    /\ tfn' = "none"
    /\ tres' = Pending
    /\ terr' = ""
    /\ UNCHANGED <<now, basevars, restT, tqn, tsender, treceiver, tamount, bal, work,
                   bal0, pout, pbefore, prel, pgot, sess, tcalls>>

\* ------------------------------------------------------------------ mongoose
\* transactionExample of src/backend-examples.js.  senderId, receiverId and
\* amount are free names of the function: any account id, any amount.
Amounts == {k * Amount : k \in 1..MaxUnits}

\* transactionExample is called with senderId = s, receiverId = r, amount = a.
MgCall(s, r, a) ==
    /\ tpc = "idle"
    /\ tcalls < MaxTxCalls
    /\ tcalls' = tcalls + 1
    /\ tfn' = "transactionExample"
    /\ tpc' = "startSession"
    /\ tqn' = 0
    /\ tsender' = s
    /\ treceiver' = r
    /\ tamount' = a
    /\ bal0' = bal
    /\ pbefore' = pout
    /\ prel' = 0
    /\ pgot' = FALSE
    /\ terr' = ""
    /\ tres' = Pending
    /\ UNCHANGED <<now, basevars, restT, bal, work, pout, sess>>

\* mongoose.startSession() settles; session.startTransaction() follows and the
\* sender's findByIdAndUpdate is issued.  startSession is outside the try.
MgStartSession(ok) ==
    /\ tpc = "startSession"
    /\ IF ok
       THEN /\ sess' = sess + 1
            /\ work' = Tx(bal)
            /\ tpc' = "debit"
            /\ UNCHANGED <<terr, tres>>
       ELSE /\ tpc' = "done"
            /\ tres' = RejectedWith("startSession")
            /\ UNCHANGED <<sess, work, terr>>
    /\ UNCHANGED <<now, basevars, restT, tfn, tqn, tsender, treceiver, tamount, bal,
                   bal0, pout, pbefore, prel, pgot, tcalls>>

\* The sender's findByIdAndUpdate({ $inc: { balance: -amount } }, { new: true })
\* settles: `sender` is the updated document, null when there is none, and
\* reading sender.balance of null throws a TypeError.
MgDebit(ok) ==
    /\ tpc = "debit"
    /\ IF ok
       THEN LET v == Inc(work.view, tsender, -tamount)
            IN  /\ work' = Tx(v)
                /\ IF ~v[tsender].exists
                   THEN terr' = "TypeError" /\ tpc' = "abortTransaction"
                   ELSE IF v[tsender].balance < 0
                   THEN terr' = "Insufficient balance" /\ tpc' = "abortTransaction"
                   ELSE terr' = terr /\ tpc' = "credit"
       ELSE /\ work' = work
            /\ terr' = "debit"
            /\ tpc' = "abortTransaction"
    /\ UNCHANGED <<now, basevars, restT, tfn, tqn, tsender, treceiver, tamount, bal,
                   bal0, tres, pout, pbefore, prel, pgot, sess, tcalls>>

\* The receiver's findByIdAndUpdate({ $inc: { balance: amount } }) settles; its
\* result is not looked at.
MgCredit(ok) ==
    /\ tpc = "credit"
    /\ IF ok
       THEN /\ work' = Tx(Inc(work.view, treceiver, tamount))
            /\ tpc' = "create"
            /\ terr' = terr
       ELSE /\ work' = work
            /\ terr' = "credit"
            /\ tpc' = "abortTransaction"
    /\ UNCHANGED <<now, basevars, restT, tfn, tqn, tsender, treceiver, tamount, bal,
                   bal0, tres, pout, pbefore, prel, pgot, sess, tcalls>>

\* Transaction.create settles.
MgCreate(ok) ==
    /\ tpc = "create"
    /\ tpc' = IF ok THEN "commitTransaction" ELSE "abortTransaction"
    /\ terr' = IF ok THEN terr ELSE "create"
    /\ UNCHANGED <<now, basevars, restT, tfn, tqn, tsender, treceiver, tamount, bal,
                   work, bal0, tres, pout, pbefore, prel, pgot, sess, tcalls>>

\* session.commitTransaction() settles.  On success the finally block ends the
\* session.  A commit that rejects has either not been applied, or has been
\* applied with its acknowledgement lost (`applied`); the catch block calls
\* abortTransaction.
MgCommit(ok, applied) ==
    /\ tpc = "commitTransaction"
    /\ work' = NoTx
    /\ IF ok
       THEN /\ bal' = work.view
            /\ sess' = sess - 1
            /\ tpc' = "done"
            /\ tres' = Fulfilled
            /\ terr' = terr
       ELSE /\ bal' = IF applied THEN work.view ELSE bal
            /\ tpc' = "abortTransaction"
            /\ terr' = "commit"
            /\ UNCHANGED <<sess, tres>>
    /\ UNCHANGED <<now, basevars, restT, tfn, tqn, tsender, treceiver, tamount,
                   bal0, pout, pbefore, prel, pgot, tcalls>>

\* session.abortTransaction() settles: the transaction is discarded, the caught
\* error is rethrown (the error of abortTransaction if that rejects), and the
\* finally block ends the session.
MgAbort(ok) ==
    /\ tpc = "abortTransaction"
    /\ work' = NoTx
    /\ sess' = sess - 1
    /\ tpc' = "done"
    /\ tres' = RejectedWith(IF ok THEN terr ELSE "abort")
    /\ terr' = terr
    /\ UNCHANGED <<now, basevars, restT, tfn, tqn, tsender, treceiver, tamount, bal,
                   bal0, pout, pbefore, prel, pgot, tcalls>>

\* ------------------------------------------------------------------ withTransaction
\* transactionWithHelper of src/backend-examples.js 1760-1778: the transfer of
\* 100 inside session.withTransaction.  senderId and receiverId are free names
\* of the function.  The function has no try: session.endSession() is reached
\* only when withTransaction resolves.

\* transactionWithHelper is called with senderId = s, receiverId = r.
HelperCall(s, r) ==
    /\ tpc = "idle"
    /\ tcalls < MaxTxCalls
    /\ tcalls' = tcalls + 1
    /\ tfn' = "transactionWithHelper"
    /\ tpc' = "helperSession"
    /\ tqn' = 0
    /\ tsender' = s
    /\ treceiver' = r
    /\ tamount' = Amount
    /\ bal0' = bal
    /\ pbefore' = pout
    /\ prel' = 0
    /\ pgot' = FALSE
    /\ terr' = ""
    /\ tres' = Pending
    /\ UNCHANGED <<now, basevars, restT, bal, work, pout, sess>>

\* mongoose.startSession() settles; withTransaction starts a transaction and
\* calls the callback, which issues the sender's updateOne.
HelperStartSession(ok) ==
    /\ tpc = "helperSession"
    /\ IF ok
       THEN /\ sess' = sess + 1
            /\ work' = Tx(bal)
            /\ tpc' = "updateSender"
            /\ UNCHANGED tres
       ELSE /\ tpc' = "done"
            /\ tres' = RejectedWith("startSession")
            /\ UNCHANGED <<sess, work>>
    /\ UNCHANGED <<now, basevars, restT, tfn, tqn, tsender, treceiver, tamount, bal,
                   bal0, terr, pout, pbefore, prel, pgot, tcalls>>

\* An awaited call inside withTransaction rejects with error e: withTransaction
\* aborts the transaction; it starts a new one and calls the callback again
\* when the error is a transient one (`retry`), otherwise it rejects, and so
\* does the function, with the session still open.
HelperFail(e, retry) ==
    IF retry
    THEN /\ work' = Tx(bal')
         /\ tpc' = "updateSender"
         /\ UNCHANGED tres
    ELSE /\ work' = NoTx
         /\ tpc' = "done"
         /\ tres' = RejectedWith(e)

\* The sender's updateOne({ $inc: { balance: -100 } }) settles; the balance is
\* not looked at, and a filter that matches no document is no error.
HelperUpdateSender(ok, retry) ==
    /\ tpc = "updateSender"
    /\ bal' = bal
    /\ IF ok
       THEN /\ work' = Tx(Inc(work.view, tsender, -tamount))
            /\ tpc' = "updateReceiver"
            /\ UNCHANGED tres
       ELSE HelperFail("updateSender", retry)
    /\ UNCHANGED <<now, basevars, restT, tfn, tqn, tsender, treceiver, tamount,
                   bal0, terr, pout, pbefore, prel, pgot, sess, tcalls>>

\* The receiver's updateOne({ $inc: { balance: 100 } }) settles; the callback
\* returns and withTransaction commits.
HelperUpdateReceiver(ok, retry) ==
    /\ tpc = "updateReceiver"
    /\ bal' = bal
    /\ IF ok
       THEN /\ work' = Tx(Inc(work.view, treceiver, tamount))
            /\ tpc' = "helperCommit"
            /\ UNCHANGED tres
       ELSE HelperFail("updateReceiver", retry)
    /\ UNCHANGED <<now, basevars, restT, tfn, tqn, tsender, treceiver, tamount,
                   bal0, terr, pout, pbefore, prel, pgot, sess, tcalls>>

\* The commit of withTransaction settles.  On success withTransaction
\* resolves and session.endSession() is called.  A commit that rejects has
\* either not been applied, or has been applied with its acknowledgement
\* lost (`applied`).
HelperCommit(ok, applied, retry) ==
    /\ tpc = "helperCommit"
    /\ IF ok
       THEN /\ bal' = work.view
            /\ work' = NoTx
            /\ sess' = sess - 1
            /\ tpc' = "done"
            /\ tres' = Fulfilled
       ELSE /\ bal' = IF applied THEN work.view ELSE bal
            /\ HelperFail("commit", retry /\ ~applied)
            /\ UNCHANGED sess
    /\ UNCHANGED <<now, basevars, restT, tfn, tqn, tsender, treceiver, tamount,
                   bal0, terr, pout, pbefore, prel, pgot, tcalls>>

\* SpecTransfer: one caller calls the database functions one after another.
InitTransfer ==
    /\ now = 0
    /\ InitBreaker(1, 1)
    /\ InitCacheStore
    /\ InitRestT
    /\ \E b \in [Accounts -> InitBalances], o \in 0..MaxOut : InitDb(b, o)

NextMongo ==
    \/ \E s \in Accounts, r \in Accounts, a \in Amounts : MgCall(s, r, a)
    \/ \E ok \in BOOLEAN : MgStartSession(ok)
    \/ \E ok \in BOOLEAN : MgDebit(ok)
    \/ \E ok \in BOOLEAN : MgCredit(ok)
    \/ \E ok \in BOOLEAN : MgCreate(ok)
    \/ \E ok \in BOOLEAN, applied \in BOOLEAN : MgCommit(ok, applied)
    \/ \E ok \in BOOLEAN : MgAbort(ok)
    \/ TxReturn

NextPg ==
    \/ \E f \in PgFunctions : PgCall(f)
    \/ \E ok \in BOOLEAN : PgConnect(ok)
    \/ \E ok \in BOOLEAN : CrudQuery(ok)
    \/ \E ok \in BOOLEAN : PgBegin(ok)
    \/ \E ok \in BOOLEAN : PgWithdraw(ok)
    \/ \E ok \in BOOLEAN : PgDeposit(ok)
    \/ \E ok \in BOOLEAN, applied \in BOOLEAN : PgCommit(ok, applied)
    \/ \E ok \in BOOLEAN : PgRollback(ok)

NextHelper ==
    \/ \E s \in Accounts, r \in Accounts : HelperCall(s, r)
    \/ \E ok \in BOOLEAN : HelperStartSession(ok)
    \/ \E ok \in BOOLEAN, retry \in BOOLEAN : HelperUpdateSender(ok, retry)
    \/ \E ok \in BOOLEAN, retry \in BOOLEAN : HelperUpdateReceiver(ok, retry)
    \/ \E ok \in BOOLEAN, applied \in BOOLEAN, retry \in BOOLEAN : HelperCommit(ok, applied, retry)

NextTransfer ==
    \/ NextPg
    \/ NextMongo
    \/ NextHelper

SpecTransfer == InitTransfer /\ [][NextTransfer]_vars

\* SpecMongo: the caller calls transactionExample only.
SpecMongo == InitTransfer /\ [][NextMongo]_vars

\* ------------------------------------------------------------------ cluster
\* The master block of src/nodejs.js 219-235.  The workers are processes of
\* their own: one can die at any moment, also while the master still forks.

\* One iteration of the master's for loop: cluster.fork().
ForkStep ==
    /\ kpc = "forking"
    /\ ki < numCPUs
    /\ ki' = ki + 1
    /\ live' = live \cup {nextId}
    /\ nextId' = nextId + 1
    /\ UNCHANGED <<now, basevars, restK, numCPUs, kpc, exited, exits, deaths>>

\* The loop is over: cluster.on('exit', ...) is registered and the script ends;
\* from now on the master's event loop delivers 'exit' events.
MasterReady ==
    /\ kpc = "forking"
    /\ ki = numCPUs
    /\ kpc' = "running"
    /\ UNCHANGED <<now, basevars, restK, numCPUs, ki, live, nextId, exited, exits, deaths>>

\* Worker w dies.  The workers are children of the master: the operating
\* system keeps the dead child until the master's event loop looks for it.
Die(w) ==
    /\ w \in live
    /\ deaths < MaxDeaths
    /\ deaths' = deaths + 1
    /\ live' = live \ {w}
    /\ exited' = exited \cup {w}
    /\ UNCHANGED <<now, basevars, restK, numCPUs, kpc, ki, nextId, exits>>

\* the elements of a set of worker ids, smallest id first
RECURSIVE ForkOrder(_)
ForkOrder(S) ==
    IF S = {} THEN <<>>
    ELSE LET w == CHOOSE x \in S : \A y \in S : x <= y
         IN  <<w>> \o ForkOrder(S \ {w})

\* The master's event loop notices the children that have died: it walks its
\* child processes in the order they were forked and queues one 'exit' event
\* for each dead one, so the events of workers that died before one look are
\* delivered in fork order (worker ids grow with every fork), whichever died
\* first.  The event loop starts when the script has ended.
NoticeExits ==
    /\ kpc = "running"
    /\ exited # {}
    /\ exits' = exits \o ForkOrder(exited)
    /\ exited' = {}
    /\ UNCHANGED <<now, basevars, restK, numCPUs, kpc, ki, live, nextId, deaths>>

\* an 'exit' handler that logs the death and forks nothing
OnExitLogsOnly ==
    /\ kpc = "running"
    /\ exits # <<>>
    /\ exits' = Tail(exits)
    /\ UNCHANGED <<now, basevars, restK, numCPUs, kpc, ki, live, nextId, exited, deaths>>

\* The master handles the next 'exit' event: it forks one replacement.
OnExit ==
    /\ kpc = "running"
    /\ exits # <<>>
    /\ exits' = Tail(exits)
    /\ live' = live \cup {nextId}
    /\ nextId' = nextId + 1
    /\ UNCHANGED <<now, basevars, restK, numCPUs, kpc, ki, exited, deaths>>

\* SpecCluster: the master runs its script and then its event loop, which
\* delivers every queued event; workers die at any time, MaxDeaths times at most.
InitClusterSpec ==
    /\ now = 0
    /\ InitBreaker(1, 1)
    /\ InitCacheStore
    /\ InitRestK
    /\ \E n \in 1..MaxCPUs : InitCluster(n)

NextCluster ==
    \/ ForkStep
    \/ MasterReady
    \/ \E w \in live : Die(w)
    \/ NoticeExits
    \/ OnExit

SpecCluster ==
    /\ InitClusterSpec
    /\ [][NextCluster]_vars
    /\ WF_vars(ForkStep)
    /\ WF_vars(MasterReady)
    /\ WF_vars(NoticeExits)
    /\ WF_vars(OnExit)

\* ------------------------------------------------------------------ authMiddleware
\* src/backend-examples.js 270-279.  A string is the sequence of its
\* characters; a word or a whole token stands for a run of characters without
\* a space.

\* the key the server signs and verifies with
Secret == "SECRET"
Str(chars) == [kind |-> "string", chars |-> chars]
\* the space character
Sp == [kind |-> "space"]
\* a run of characters that is no token
Word(w) == [kind |-> "word", w |-> w]
\* the text of a token issued to user u: signed with `key` ("none" when it is
\* unsigned), past its expiry or not
Jwt(u, key, expired) == [kind |-> "jwt", user |-> u, key |-> key, expired |-> expired]
\* jwt.sign({ userId: user.id }, ...): the payload of a token
Payload(j) == [userId |-> j.user]

Users == 1..NUsers
Jwts == {Jwt(u, k, e) : u \in Users, k \in {Secret, "other", "none"}, e \in BOOLEAN}

\* the values of req.headers.authorization a client may send: none, the empty
\* string, a scheme alone, a scheme and a token, two spaces between them,
\* a token without a scheme, a token followed by more text
Headers ==
    {Undefined, Str(<<>>), Str(<<Word("Bearer")>>)}
    \cup {Str(<<Word(sch), Sp, j>>) : sch \in {"Bearer", "Basic"}, j \in Jwts}
    \cup {Str(<<Word("Bearer"), Sp, Sp, j>>) : j \in Jwts}
    \cup {Str(<<j>>) : j \in Jwts}
    \cup {Str(<<Word("Bearer"), Sp, j, Sp, Word("x")>>) : j \in Jwts}

\* String.prototype.split(' ') on a sequence of characters
RECURSIVE Split(_)
Split(chars) ==
    IF \A i \in 1..Len(chars) : chars[i] # Sp
    THEN <<Str(chars)>>
    ELSE LET i == CHOOSE k \in 1..Len(chars) :
                      chars[k] = Sp /\ \A m \in 1..(k - 1) : chars[m] # Sp
         IN  <<Str(SubSeq(chars, 1, i - 1))>> \o Split(SubSeq(chars, i + 1, Len(chars)))

\* req.headers.authorization?.split(' ')[1]
BearerToken(header) ==
    IF header = Undefined
    THEN Undefined
    ELSE LET parts == Split(header.chars)
         IN  IF Len(parts) >= 2 THEN parts[2] ELSE Undefined

\* a check that decodes the token without verifying signature or expiry
VerifyDecodeOnly(token, key) ==
    IF /\ token # Undefined
       /\ Len(token.chars) = 1
       /\ token.chars[1].kind = "jwt"
    THEN [ok |-> TRUE, payload |-> Payload(token.chars[1])]
    ELSE [ok |-> FALSE]

\* jwt.verify(token, key): the payload of a well-formed token that is signed
\* with `key` and has not expired; anything else throws
Verify(token, key) ==
    IF /\ token # Undefined
       /\ Len(token.chars) = 1
       /\ token.chars[1].kind = "jwt"
       /\ token.chars[1].key = key
       /\ ~token.chars[1].expired
    THEN [ok |-> TRUE, payload |-> Payload(token.chars[1])]
    ELSE [ok |-> FALSE]

\* authMiddleware(req, res, next) for a request with the given authorization
\* header.  next() hands the request to the next handler and returns: the
\* router catches what the handlers behind it throw.
AuthMiddleware(header) ==
    /\ Len(reqs) < MaxRequests
    /\ LET token == BearerToken(header)
           v == Verify(token, Secret)
       IN  reqs' = Append(reqs,
                IF v.ok
                THEN [header |-> header, user |-> v.payload, nextCalled |-> TRUE,
                      status |-> 0, body |-> None]
                ELSE [header |-> header, user |-> Undefined, nextCalled |-> FALSE,
                      status |-> 401, body |-> [error |-> "Unauthorized"]])
    /\ UNCHANGED <<now, basevars, restA>>

\* SpecAuth: requests with any of the headers arrive one after another.
InitAuthSpec ==
    /\ now = 0
    /\ InitBreaker(1, 1)
    /\ InitCacheStore
    /\ InitRestA
    /\ InitAuth

NextAuth == \E h \in Headers : AuthMiddleware(h)

SpecAuth == InitAuthSpec /\ [][NextAuth]_vars

\* ------------------------------------------------------------------ claims

\* C1: at most one origin fetch (db.users.findById) is in flight for any key at
\* any instant, however many callers ask for the key concurrently.
C1_OneOriginFetchPerKey ==
    \A k \in Keys : Cardinality(Fetching(k)) <= 1

\* in this step Redis executes the GET of caller c
GetExecuted(c) == gpc[c] = "get" /\ greply[c] = None /\ greply'[c] # None

\* in this step Redis executes a command of redisOperations
OpExecuted == oreply = None /\ oreply' # None

\* in this step Redis executes the SET of caller c
SetExecuted(c) == gpc[c] = "set" /\ greply[c] = None /\ greply'[c] = Ok

\* C2: a cache hit short-circuits the origin: whenever the store holds a live
\* entry under the key of a getUser or cacheAsideExample call when Redis
\* executes the call's GET, the call is answered with what the entry holds,
\* returns that value, and asks the database for no key.
C2_HitShortCircuitsOrigin ==
    [][\A c \in GetCallers :
          /\ (GetExecuted(c) /\ greply'[c] # RedisError /\ Live(gid[c]))
               => greply'[c] = cache[gid[c]].val
          /\ (gpc[c] = "get" /\ gpc'[c] # "get" /\ IsString(greply[c]))
               => /\ gpc'[c] = "done"
                  /\ gres'[c] = greply[c].json
                  /\ dbCalls' = dbCalls]_vars

\* C3: once `threshold` consecutive origin failures have been recorded the
\* breaker is OPEN, and a call made while it is OPEN fails at once with
\* 'Circuit is OPEN' without the origin being invoked.
C3_BreakerTrips ==
    [][\A c \in Callers :
          /\ (FailureRecorded(c) /\ LastFailures(recent', threshold))
               => state' = "OPEN"
          /\ (Enters(c) /\ state = "OPEN")
               => /\ rpc'[c] = "done"
                  /\ IsOpenError(rres'[c])
                  /\ originCalls' = originCalls]_vars

\* C3 witness: with the largest threshold, exactly `threshold` origin calls were
\* made, all failed, and a further call was rejected by the open breaker.
C3_Witness ==
    \E c \in Callers :
        /\ threshold = MaxThreshold
        /\ state = "OPEN"
        /\ originCalls = threshold
        /\ LastFailures(recent, threshold)
        /\ rpc[c] = "done"
        /\ IsOpenError(rres[c])

\* C4: at most one probe (a call admitted while the breaker is HALF-OPEN) is
\* outstanding at any time.
C4_SingleHalfOpenProbe ==
    Cardinality(Probes) <= 1

\* C5: when a probe admitted in HALF-OPEN succeeds, the breaker becomes CLOSED
\* with its failure counter at 0.
C5_ProbeSuccessCloses ==
    [][\A c \in Callers :
          (SuccessRecorded(c) /\ rentry[c] = "HALF-OPEN")
            => (state' = "CLOSED" /\ failures' = 0)]_vars

\* C6: when a call admitted in HALF-OPEN fails, the breaker is OPEN again at once.
C6_ProbeFailureReopens ==
    [][\A c \in Callers :
          (FailureRecorded(c) /\ rentry[c] = "HALF-OPEN")
            => state' = "OPEN"]_vars

\* C7: the breaker never reports HALF-OPEN before `timeout` has elapsed since
\* its most recent transition to OPEN.
C7_OpenWindow ==
    state = "HALF-OPEN" => now >= openedAt + timeout

\* C8: a 'Circuit is OPEN' rejection is never retried: a withRetry call that
\* has caught it has settled with that very error, it neither waits a backoff
\* delay nor makes another attempt.
C8_CircuitOpenNotRetried ==
    \A c \in Callers :
        IsOpenError(rerr[c]) => (rpc[c] = "done" /\ rres[c] = rerr[c])

\* C9: for retries >= 1 one withRetry call invokes fn at least once and at most
\* `retries` times, returns the value of the first successful attempt without
\* invoking fn again, and when every attempt failed throws the error of the
\* last one.
C9_BoundedRetry ==
    \A c \in Callers :
        (rretries[c] >= 1 /\ rpc[c] # "idle") =>
            /\ attempts[c] >= 1
            /\ attempts[c] <= rretries[c]
            /\ rpc[c] = "done" =>
                  \/ /\ IsValue(rres[c])
                     /\ rres[c].attempt = attempts[c] - 1
                  \/ /\ IsError(rres[c])
                     /\ attempts[c] = rretries[c]
                     /\ rres[c].attempt = rretries[c] - 1

\* C9 witness: a call with the default three attempts has invoked fn three
\* times and settled with the origin error of its third attempt.
C9_Witness ==
    \E c \in Callers :
        /\ rretries[c] = DefaultRetries
        /\ rpc[c] = "done"
        /\ attempts[c] = DefaultRetries
        /\ IsOriginError(rres[c])
        /\ rres[c].attempt = DefaultRetries - 1

\* C10: a fetch does not surface an origin failure while attempts remain: it
\* fails with the origin's error only once the origin has been tried
\* DefaultRetries times for the key, so a failure followed by a success within
\* the attempts yields the value and a cache entry.
C10_RetryThenSuccess ==
    \A c \in GetCallers :
        (gpc[c] = "done" /\ gres[c] = DbError) => dbCalls[gid[c]] >= DefaultRetries

\* in this step the getUser call of caller c settles
Settles(c) == gpc[c] # "done" /\ gpc'[c] = "done"

\* C11: a getUser call that ends in the origin's error has written nothing: the
\* step that throws leaves the whole store as it was, and the call never
\* reached its redis.set (its local `user` was never assigned).
C11_FailureWritesNothing ==
    [][\A c \in GetCallers :
          (Settles(c) /\ gres'[c] = DbError)
            => (cache' = cache /\ guser[c] = None /\ guser'[c] = None)]_vars

\* C11 witness: a call has failed with the origin's error and the store holds
\* no entry for its key.
C11_Witness ==
    \E c \in GetCallers :
        /\ gpc[c] = "done"
        /\ gres[c] = DbError
        /\ cache[gid[c]] = NoEntry

\* C12: a caller that missed while another caller's fetch of the same key was
\* running receives the same outcome as that caller: the same value or the
\* same error.
C12_SameOutcomeForWaiters ==
    \A c \in GetCallers :
        (gdriver[c] # 0 /\ gpc[c] = "done" /\ gpc[gdriver[c]] = "done")
          => gres[c] = gres[gdriver[c]]

\* C13: no getUser or cacheAsideExample call fails with an error that
\* originated in the cache store: a failed redis.get or redis.set is never the
\* outcome of the call.
C13_CacheErrorsNotSurfaced ==
    \A c \in GetCallers : gpc[c] = "done" => gres[c] # RedisError

\* the expiry of the entry under k: the time Redis executed the SET that wrote
\* it plus the time to live the SET carried
ExpiresAt(k) == cache[k].exp

\* in this step Redis answers the GET of caller c, not with an error, while
\* the store has an entry with a time to live under the caller's key
GetOnTtlEntry(c) ==
    /\ GetExecuted(c)
    /\ ~IsError(greply'[c])
    /\ cache[gid[c]] # NoEntry
    /\ ExpiresAt(gid[c]) # NoExpiry

\* in this step caller c takes the nil reply of its redis.get as a miss and
\* asks the database for its id
MissInvokesOrigin(c) ==
    /\ dbCalls'[gid[c]] = dbCalls[gid[c]] + 1
    /\ gpc'[c] = (IF gfn[c] = "getUser" THEN "find" ELSE "set")

C15_ConsecutiveFailuresTrip ==
    [][\A c \in Callers :
          /\ SuccessRecorded(c) => failures' = 0
          /\ (state = "CLOSED" /\ state' = "OPEN")
               => LastFailures(recent', threshold)
          /\ (state = "CLOSED" /\ FailureRecorded(c)
                 /\ ~LastFailures(recent', threshold))
               => state' = "CLOSED"]_vars

\* C15 witness: with threshold 2 the origin failed, succeeded and failed again
\* (both callers hold an origin error, the success lies between them), and the
\* breaker is still CLOSED with one failure counted.
C15_Witness ==
    /\ threshold = 2
    /\ originCalls = 3
    /\ recent = <<"ok", "fail">>
    /\ \A c \in Callers : rpc[c] = "done" /\ IsOriginError(rres[c])
    /\ failures = 1
    /\ state = "CLOSED"

\* in this step the getUser call of caller c fails
Fails(c) == Settles(c) /\ IsError(gres'[c])

\* C16: key isolation: the step in which a getUser call for one id fails
\* changes, for every other id, neither the cache entry nor the set of calls
\* suspended on findById nor the number of findById calls made; and no other
\* caller's call is moved by it.
C16_KeyIsolation ==
    [][\A c \in GetCallers :
          Fails(c) =>
            /\ \A k \in Keys \ {gid[c]} :
                  /\ cache'[k] = cache[k]
                  /\ Fetching(k)' = Fetching(k)
                  /\ dbCalls'[k] = dbCalls[k]
            /\ \A d \in GetCallers \ {c} :
                  /\ gpc'[d] = gpc[d]
                  /\ greply'[d] = greply[d]
                  /\ gres'[d] = gres[d]]_vars

\* C16 witness: a call for one id has failed while the call of another caller
\* for another id is in flight, past findById and awaiting its redis.set, and
\* the other id's entry is in the store.
C16_Witness ==
    \E c \in GetCallers, d \in GetCallers :
        /\ gpc[c] = "done"
        /\ IsError(gres[c])
        /\ gid[d] # gid[c]
        /\ gpc[d] = "set"
        /\ greply[d] = Ok
        /\ cache[gid[d]] # NoEntry

\* C17: every withRetry call that has started an attempt eventually settles
\* with a value or an error, provided every origin call settles and every
\* backoff timer fires.
C17_EveryFetchCompletes ==
    \A c \in Callers :
        (rpc[c] \in {"await", "resume", "sleep"})
          ~> (rpc[c] = "done" /\ (IsValue(rres[c]) \/ IsError(rres[c])))

\* C17 witness: a call has settled with a value after it waited out two
\* backoff delays.
C17_Witness ==
    \E c \in Callers :
        /\ rpc[c] = "done"
        /\ IsValue(rres[c])
        /\ Len(slept[c]) = 2

\* C18: an in-flight entry for an id exists exactly while a fetch sequence for
\* that id is running: a getUser call that misses the cache starts an origin
\* call (db.users.findById) if and only if no other call's fetch of the same
\* id is running at that moment.
C18_LedgerLifecycle ==
    [][\A c \in GetCallers :
          (gpc[c] = "get" /\ gpc'[c] # "get" /\ greply[c] = Nil)
            => (dbCalls'[gid[c]] = dbCalls[gid[c]] + 1 <=> RunningFetch(c) = 0)]_vars

\* s is an initial part of t
IsPrefix(s, t) == Len(s) <= Len(t) /\ s = SubSeq(t, 1, Len(s))

\* C21: the four-statement snippet prints 1, 4, 3, 2 in every execution: what
\* it has printed is at every moment an initial part of that sequence, and
\* when the process exits all four lines are printed.
C21_MicrotaskBeforeMacrotask ==
    eprog = "snippet" =>
        /\ IsPrefix(out, <<"1", "4", "3", "2">>)
        /\ phase = "done" => out = <<"1", "4", "3", "2">>

\* C21 witness: the snippet has run to the exit of the process.
C21_Witness ==
    /\ eprog = "snippet"
    /\ phase = "done"
    /\ out = <<"1", "4", "3", "2">>

\* the order the comment of eventLoopExample documents
DocumentedOrder ==
    <<"1. Start", "9. End", "4. nextTick", "5. Promise", "2. setTimeout",
      "3. setImmediate", "6. I/O Callback", "8. Inner Immediate",
      "7. Inner Timeout">>

\* C22: a process that calls eventLoopExample once prints the nine lines in
\* the order its comment documents, in every execution: what it has printed
\* is at every moment an initial part of that sequence; so the top-level
\* zero-delay timer fires before the top-level setImmediate.
C22_DocumentedOrder ==
    (eprog = "eventLoopExample" /\ Len(ecalls) = 1) => IsPrefix(out, DocumentedOrder)

\* the accounts after the debit and the credit of a transfer have both been applied
Transfer(b, s, r, a) == Inc(Inc(b, s, -a), r, a)

\* C23: the transfers are all-or-nothing: while advancedFeatures or
\* transactionExample runs and after it has settled, the committed accounts
\* are either those of before the call or those with both statements of the
\* transfer applied, and in no committed state has the sender's balance
\* changed while the receiver's has not; they are the accounts with both
\* statements applied when the function succeeded without catching an error,
\* and those of before the call when it caught an error raised before COMMIT.
C23_AllOrNothing ==
    tfn \in {"advancedFeatures", "transactionExample"} =>
        /\ bal \in {bal0, Transfer(bal0, tsender, treceiver, tamount)}
        /\ ~(bal[tsender] # bal0[tsender] /\ bal[treceiver] = bal0[treceiver])
        /\ (tpc = "done" /\ tres = Fulfilled /\ terr = "")
             => bal = Transfer(bal0, tsender, treceiver, tamount)
        /\ (tpc = "done" /\ terr \notin {"", "commit"}) => bal = bal0

\* C24: pool clients are always released: connectToPostgres, crudOperations
\* and advancedFeatures call client.release() at most once; while one of them
\* holds its client exactly one more client is checked out than before the
\* call; and when it has settled, fulfilled or rejected, it has released the
\* client it obtained exactly once and the number of checked-out clients is
\* what it was before the call.
C24_ClientsReleased ==
    tfn \in PgFunctions =>
        /\ prel <= 1
        /\ tpc \notin {"connect", "done"} => (pout = pbefore + 1 /\ prel = 0)
        /\ tpc = "done" => /\ pout = pbefore
                           /\ prel = IF pgot THEN 1 ELSE 0

\* C24 witness: in advancedFeatures COMMIT failed and then ROLLBACK threw out of
\* the catch block; the client was released once and the pool is back at the
\* count other users hold.
C24_Witness ==
    /\ tfn = "advancedFeatures"
    /\ tpc = "done"
    /\ terr = "commit"
    /\ tres = RejectedWith("rollback")
    /\ prel = 1
    /\ pbefore = MaxOut
    /\ pout = pbefore

\* what a transfer adds to the balance of account x
Delta(x) ==
    (IF x = treceiver THEN tamount ELSE 0) - (IF x = tsender THEN tamount ELSE 0)

\* C29: transactionExample keeps balances valid: no committed balance is
\* negative; when it has fulfilled, the sender and the receiver exist and hold
\* what they held before the call less, respectively plus, the amount; when the
\* decremented balance was below zero nothing is committed and the promise is
\* rejected; and whenever it has settled no session is left open.
C29_TransferKeepsBalancesValid ==
    tfn = "transactionExample" =>
        /\ \A x \in Accounts : bal[x].balance >= 0
        /\ (tpc = "done" /\ tres = Fulfilled)
             => \A x \in {tsender, treceiver} :
                    /\ bal0[x].exists
                    /\ bal[x].balance = bal0[x].balance + Delta(x)
        /\ (tpc = "done" /\ terr = "Insufficient balance")
             => (bal = bal0 /\ tres.settled = "rejected")
        /\ tpc = "done" => sess = 0

\* C25: the master forks numCPUs workers at the start and one replacement for
\* every worker exit it has handled; the number of live workers never exceeds
\* numCPUs, and whenever it is below numCPUs it eventually is numCPUs again.
C25_ClusterKeepsWorkerCount ==
    /\ [](Cardinality(live) <= numCPUs)
    /\ [](nextId - 1 = ki + (deaths - (Cardinality(exited) + Len(exits))))
    /\ <>(ki = numCPUs)
    /\ (Cardinality(live) < numCPUs) ~> (Cardinality(live) = numCPUs)

\* C25 witness: on the largest machine every allowed death has happened, every
\* 'exit' event is handled, and numCPUs workers are alive again after
\* numCPUs + MaxDeaths forks.
C25_Witness ==
    /\ numCPUs = MaxCPUs
    /\ kpc = "running"
    /\ deaths = MaxDeaths
    /\ exited = {}
    /\ exits = <<>>
    /\ Cardinality(live) = numCPUs
    /\ nextId = numCPUs + MaxDeaths + 1

\* the backoff schedule of caller c as far as it has been waited: Delay * 1
\* after attempt 0, Delay * 2 after attempt 1, and so on
C26_Schedule(c) ==
    /\ \A j \in 1..Len(slept[c]) : slept[c][j] = Delay * j
    /\ \A j, k \in 1..Len(slept[c]) : j <= k => slept[c][j] <= slept[c][k]

\* C26: after failed attempt i (0-indexed) that is not the last, withRetry
\* starts a timer of exactly Delay * (i + 1) and makes the next attempt only
\* once it is due, so the delays never decrease; nothing is waited before the
\* first attempt, and the final failed attempt throws its error at once.
C26_BackoffSchedule ==
    /\ [](\A c \in Callers :
            /\ C26_Schedule(c)
            /\ rpc[c] \in {"await", "resume"} => Len(slept[c]) = ri[c]
            /\ rpc[c] = "sleep" =>
                  /\ Len(slept[c]) = ri[c] + 1
                  /\ ri[c] < rretries[c] - 1
                  /\ rwake[c] <= now + Delay * (ri[c] + 1)
            /\ (rpc[c] = "done" /\ IsError(rres[c])) =>
                  /\ ri[c] = rretries[c] - 1
                  /\ Len(slept[c]) = ri[c]
                  /\ rres[c] = rerr[c])
    /\ [][\A c \in Callers :
            /\ (rpc[c] # "sleep" /\ rpc'[c] = "sleep") =>
                  rwake'[c] = now + Delay * (ri'[c] + 1)
            /\ (rpc[c] = "sleep" /\ rpc'[c] # "sleep") =>
                  /\ now >= rwake[c]
                  /\ attempts'[c] = attempts[c] + 1]_vars

\* C26 witness: a call with three attempts waited Delay after its first
\* failure and 2 * Delay after its second, and threw the third attempt's error
\* without waiting again.
C26_Witness ==
    \E c \in Callers :
        /\ rretries[c] = 3
        /\ rpc[c] = "done"
        /\ IsOriginError(rres[c])
        /\ slept[c] = <<Delay, 2 * Delay>>
        /\ now = 3 * Delay

\* C27: in every reachable state of the breaker, also with several calls in
\* flight, state = 'OPEN' implies failures >= threshold, and at most one
\* half-open timer is pending.
C27_BreakerConsistent ==
    /\ state = "OPEN" => failures >= threshold
    /\ Len(hoTimers) <= 1

\* C28: whatever getUser or cacheAsideExample returns for an id, and whatever
\* is stored in the cache under an id, is a value the database yielded for that
\* same id in this or an earlier call (db.users.findById in getUser, the user
\* built in place in cacheAsideExample); a row is never returned or stored
\* under another id than its own.
C28_ValuesFromOriginOfSameKey ==
    /\ \A k \in Keys :
          cache[k] # NoEntry =>
            /\ cache[k].kind = "entry"
            /\ Parse(cache[k].val) \in loaded[k]
            /\ Parse(cache[k].val).kind = "row" => Parse(cache[k].val).id = k
    /\ \A c \in GetCallers :
          (gpc[c] = "done" /\ ~IsError(gres[c])) =>
            /\ gres[c] \in loaded[gid[c]]
            /\ gres[c].kind = "row" => gres[c].id = gid[c]

\* C30: authMiddleware calls next() exactly for the requests whose
\* authorization header carries, as its second space-separated part, a token
\* signed with the server's key and not expired, and then req.user is the
\* token's payload and no response is sent; every other request gets the 401
\* response, no next() and no req.user.
C30_OnlyVerifiedAdmitted ==
    \A n \in 1..Len(reqs) :
        LET r == reqs[n]
            good == {j \in Jwts : j.key = Secret /\ ~j.expired}
            carried == {j \in good :
                          /\ r.header # Undefined
                          /\ Len(Split(r.header.chars)) >= 2
                          /\ Split(r.header.chars)[2] = Str(<<j>>)}
        IN  /\ r.nextCalled <=> carried # {}
            /\ r.nextCalled =>
                  /\ r.status = 0
                  /\ \E j \in carried : r.user = [userId |-> j.user]
            /\ ~r.nextCalled =>
                  /\ r.status = 401
                  /\ r.body = [error |-> "Unauthorized"]
                  /\ r.user = Undefined

\* C30 witness: one request with a valid bearer token was passed on, and one
\* whose bearer token is signed with another key was answered with 401.
C30_Witness ==
    \E m, n \in 1..Len(reqs) :
        /\ reqs[m].header = Str(<<Word("Bearer"), Sp, Jwt(1, Secret, FALSE)>>)
        /\ reqs[m].nextCalled
        /\ reqs[m].user = [userId |-> 1]
        /\ reqs[n].header = Str(<<Word("Bearer"), Sp, Jwt(1, "other", FALSE)>>)
        /\ reqs[n].status = 401
        /\ ~reqs[n].nextCalled
====
